---- MODULE Spec2Model ----
(***************************************************************************)
(* Resumable, multi-subscriber event streaming of weather-ai:              *)
(*   lib/stream-manager.js  StreamManager   (session registry + Redis log) *)
(*   lib/sse-handler.js     SSEConnectionManager  (broadcast hub)          *)
(*   index.js               GET /api/stream/:id, POST /api/chat/:id        *)
(*                                                                         *)
(* One conversation is modelled.  A text is a sequence of fragments; a     *)
(* fragment is one element of Frags (" " stands for any fragment made of   *)
(* whitespace only).  Date.now() is the variable now.  An awaited call to  *)
(* Redis, MongoDB or the LLM takes effect in the step that resumes the     *)
(* caller; that step then runs the synchronous code up to the next await.  *)
(***************************************************************************)
EXTENDS Integers, Sequences, FiniteSets, TLC

\* ---------------------------------------------------------------- bounds
MaxClock == 3
MaxRunClock == 1
MaxFrags == 2
MaxAppends == 2
MaxCreates == 2
NumRuns == 2
NumClients == 2
MaxToolCalls == 1
MaxRounds == 2
MaxCardEvents == 4

\* 2 hours (stream-manager.js:140), in ticks of the model's clock
STREAM_TIMEOUT == 2
CACHE_TTL == 2
\* useStreamManager
maxReconnectAttempts == 10
baseReconnectDelay == 1000

Frags == {"a", " "}
StreamIds == 0..MaxClock
Runs == 1..NumRuns
Clients == 1..NumClients

VARIABLES
  now,            \* Date.now()
  redisUp,        \* the Redis client answers commands
  activeStreams,  \* StreamManager.activeStreams: streamId -> session
  redisLog,       \* the Redis stream stored at key streamId
  logTTL,         \* whether the key streamId carries an expiry
  sm,             \* the StreamManager call in flight of the registry's caller
  smh,            \* what that caller has done and got back, per stream key
  mongoUp,        \* mongoose.connection.readyState = 1
  conv,           \* the Conversation document of the conversation, if it exists
  cache,          \* conversationCache.get(conversationId)
  connections,    \* SSEConnectionManager.connections.get(conversationId)
  cl,             \* per connection: the stream handler's position, socket, timers
  out,            \* per connection: the events written to it, in order
  bcast,          \* every event handed to sseManager.broadcast, in order
  run             \* per chat submission: the handler's and background run's state

smDriver == <<sm, smh>>
appVars == <<mongoUp, conv, cache, connections, cl, out, bcast, run>>
vars == <<now, redisUp, activeStreams, redisLog, logTTL, sm, smh,
          mongoUp, conv, cache, connections, cl, out, bcast, run>>

\* ------------------------------------------------------------ StreamManager
NoStream == [present |-> FALSE, text |-> <<>>, status |-> "none", startedAt |-> 0]

NewStream(t) == [present |-> TRUE, text |-> <<>>, status |-> "active", startedAt |-> t]

\* this.activeStreams.set(streamId, {...})
createStreamSet(as, sid, t) == [as EXCEPT ![sid] = NewStream(t)]

\* stream.text += chunk
appendText(as, sid, chunk) == [as EXCEPT ![sid].text = @ \o chunk]

\* stream.status = "completed"
markCompleted(as, sid) == [as EXCEPT ![sid].status = "completed"]

\* this.activeStreams.delete(streamId)
deleteStream(as, sid) == [as EXCEPT ![sid] = NoStream]

TokenEvent(chunk) == [type |-> "token", content |-> chunk]
CompleteEvent == [type |-> "complete", content |-> <<>>]

\* redisClient.xAdd(streamId, '*', ev): ids are assigned in arrival order
xAdd(log, sid, ev) == [log EXCEPT ![sid] = Append(@, ev)]

\* redisClient.xRange(streamId, '-', '+')
xRange(log, sid) == log[sid]

NotFound == [found |-> FALSE, text |-> <<>>, status |-> "none", fromRedis |-> FALSE]

\* resumeStream, the branch that finds the session in activeStreams
resumeFromMemory(as, sid) ==
  [found |-> TRUE, text |-> as[sid].text, status |-> as[sid].status, fromRedis |-> FALSE]

RECURSIVE accumulateReversed(_)
\* accumulate, had the loop put each token in front: content + accumulatedText
accumulateReversed(events) ==
  IF events = <<>> THEN <<>>
  ELSE accumulateReversed(Tail(events))
         \o (IF Head(events).type = "token" THEN Head(events).content ELSE <<>>)

RECURSIVE accumulate(_)
\* the loop of resumeStream over the events of the log
accumulate(events) ==
  IF events = <<>> THEN <<>>
  ELSE (IF Head(events).type = "token" THEN Head(events).content ELSE <<>>)
         \o accumulate(Tail(events))

logStatus(events) ==
  IF \E i \in 1..Len(events) : events[i].type = "complete" THEN "completed" ELSE "active"

\* resumeStream, the branch that reads the Redis stream
resumeFromLog(events) ==
  IF Len(events) = 0 THEN NotFound
  ELSE [found |-> TRUE, text |-> accumulate(events), status |-> logStatus(events),
        fromRedis |-> TRUE]

\* cleanup(): drop every session started more than the timeout ago
cleanupStreams(as, t) ==
  [sid \in StreamIds |->
     IF as[sid].present /\ t - as[sid].startedAt > STREAM_TIMEOUT THEN NoStream ELSE as[sid]]

\* ------------------------------------------------- the conversation document
NoId == <<"none", 0>>
UserId(r) == <<"user", r>>      \* `user-${Date.now()}-${random}`: unique per request
BotId(t) == <<"bot", t>>        \* `bot-${Date.now()}`
ErrorId(t) == <<"error", t>>    \* `error-${Date.now()}`

FALLBACK == <<"Here's the weather information you requested">>
APOLOGY == <<"Sorry, an error occurred.">>

NoConversation == [exists |-> FALSE, messages |-> <<>>, history |-> <<>>, lastCity |-> "null"]

\* new Conversation({messages: [], history: [], lastCity: null, ...}).save()
NewConversation == [exists |-> TRUE, messages |-> <<>>, history |-> <<>>, lastCity |-> "null"]

Message(id, type, text, streaming) ==
  [id |-> id, type |-> type, text |-> text, streaming |-> streaming]

\* the filter { conversationId, "messages.id": id } matches the document
hasMessage(cv, id) == cv.exists /\ \E i \in 1..Len(cv.messages) : cv.messages[i].id = id

\* the element the positional operator messages.$ stands for: the first match
firstMatch(msgs, id) == CHOOSE i \in 1..Len(msgs) :
  /\ msgs[i].id = id
  /\ \A j \in 1..(i - 1) : msgs[j].id # id

\* findOneAndUpdate({ conversationId }, { $push: { messages: msg } }), no upsert
pushMessage(cv, msg) ==
  IF cv.exists THEN [cv EXCEPT !.messages = Append(@, msg)] ELSE cv

\* findOneAndUpdate({ conversationId, "messages.id": id }, { $set: { "messages.$.text": text } })
setMessageText(cv, id, text) ==
  IF hasMessage(cv, id)
    THEN [cv EXCEPT !.messages[firstMatch(cv.messages, id)].text = text]
    ELSE cv

\* finalSave, had it set the text and left the streaming flag as it was
finalSaveTextOnly(cv, id, text, userMessage) ==
  IF hasMessage(cv, id)
    THEN [cv EXCEPT !.messages[firstMatch(cv.messages, id)].text = text,
                    !.history = @ \o <<[type |-> "human", text |-> userMessage],
                                       [type |-> "ai", text |-> text]>>]
    ELSE cv

\* the final save: text and streaming=false on messages.$, the turn pair pushed to history
finalSave(cv, id, text, userMessage) ==
  IF hasMessage(cv, id)
    THEN [cv EXCEPT !.messages[firstMatch(cv.messages, id)].text = text,
                    !.messages[firstMatch(cv.messages, id)].streaming = FALSE,
                    !.history = @ \o <<[type |-> "human", text |-> userMessage],
                                       [type |-> "ai", text |-> text]>>]
    ELSE cv

\* findOneAndUpdate({ conversationId }, { $pull: { messages: { id } } })
pullMessage(cv, id) ==
  IF cv.exists
    THEN [cv EXCEPT !.messages = SelectSeq(@, LAMBDA m : m.id # id)]
    ELSE cv

\* findOneAndUpdate({ conversationId }, { $set: { lastCity: city } })
setLastCity(cv, city) == IF cv.exists THEN [cv EXCEPT !.lastCity = city] ELSE cv

\* trimBody, had the handler not trimmed the message
trimBodyUntrimmed(body) == IF body \in {"missing", ""} THEN "" ELSE body

\* String(req.body?.message || "").trim()
Bodies == {"missing", "", " ", "hi"}
trimBody(body) == IF body \in {"missing", "", " "} THEN "" ELSE body

\* fullReply.trim() is empty
isBlank(text) == \A i \in 1..Len(text) : text[i] = " "

\* if (!fullReply.trim()) fullReply = "Here's the weather information ..."
safetyFallback(fullReply) == IF isBlank(fullReply) THEN FALLBACK ELSE fullReply

\* ----------------------------------------------------------- conversationCache
NoCache == [present |-> FALSE, data |-> NoConversation, timestamp |-> 0]

\* setCachedConversation(id, data)
setCachedConversation(data, t) == [present |-> TRUE, data |-> data, timestamp |-> t]

\* getCachedConversation(id) returns the entry's data: it is there and younger
\* than CACHE_TTL
cacheHit(c, t) == c.present /\ t - c.timestamp < CACHE_TTL

\* conversationCache.delete(conversationId)
invalidateCache(c) == NoCache

\* --------------------------------------------------------------- the events
Event(type, content, messageId, messages) ==
  [type |-> type, content |-> content, messageId |-> messageId, messages |-> messages]

UserMessageEvent(r, text) == Event("message", <<text>>, UserId(r), <<>>)
StatusEvent(label) == Event("status", <<label>>, NoId, <<>>)
TokenBroadcast(text, id) == Event("token", text, id, <<>>)
DoneEvent(id) == Event("done", <<>>, id, <<>>)
ApologyEvent(t) == Event("message", APOLOGY, ErrorId(t), <<>>)
ConnectedEvent == Event("connected", <<>>, NoId, <<>>)
SyncEvent(allMessages) == Event("sync", <<>>, NoId, allMessages)
ResumeEvent(id, text) == Event("resume", text, id, <<>>)

\* ------------------------------------------------------ SSEConnectionManager
\* addConnection(conversationId, res)
addConnection(conns, c) == conns \cup {c}

\* removeConnection, had it put back a connection it does not find
removeConnectionToggling(conns, c) == IF c \in conns THEN conns \ {c} ELSE conns \cup {c}

\* removeConnection(conversationId, res)
removeConnection(conns, c) == conns \ {c}

\* client.write(...) throws on a broken socket; a socket the peer has closed
\* takes the write and drops it
writeThrows(c) == cl[c].sock = "broken"
writeArrives(c) == cl[c].sock = "open"

\* sendToClient, had it written the frame twice
sendToClientTwice(o, c, ev) ==
  IF writeArrives(c) THEN [o EXCEPT ![c] = @ \o <<ev, ev>>] ELSE o

\* sendToClient(res, 'message', data): the write, its failure caught
sendToClient(o, c, ev) == IF writeArrives(c) THEN [o EXCEPT ![c] = Append(@, ev)] ELSE o

\* broadcast, had a write put the frame in front of what the socket holds
broadcastNewestFirst(h, ev) ==
  LET deadClients == {c \in h.connections : writeThrows(c)}
  IN  [connections |-> h.connections \ deadClients,
       out |-> [c \in Clients |-> IF c \in h.connections /\ writeArrives(c)
                                    THEN <<ev>> \o h.out[c] ELSE h.out[c]],
       bcast |-> Append(h.bcast, ev)]

\* broadcast, had the loop over the clients no try/catch: the first write that
\* throws ends it, the clients after it are not written to and none is removed
broadcastAborting(h, ev) ==
  LET deadClients == {c \in h.connections : writeThrows(c)}
  IN  [connections |-> h.connections,
       out |-> [c \in Clients |->
                  IF c \in h.connections /\ writeArrives(c)
                       /\ \A d \in deadClients : c < d
                    THEN Append(h.out[c], ev) ELSE h.out[c]],
       bcast |-> Append(h.bcast, ev)]

\* broadcast, had it not removed the clients whose write threw
broadcastKeepingDead(h, ev) ==
  [connections |-> h.connections,
   out |-> [c \in Clients |-> IF c \in h.connections /\ writeArrives(c)
                                THEN Append(h.out[c], ev) ELSE h.out[c]],
   bcast |-> Append(h.bcast, ev)]

\* broadcast, had it written to every response whether subscribed or not
broadcastToEveryone(h, ev) ==
  LET deadClients == {c \in h.connections : writeThrows(c)}
  IN  [connections |-> h.connections \ deadClients,
       out |-> [c \in Clients |-> IF writeArrives(c)
                                    THEN Append(h.out[c], ev) ELSE h.out[c]],
       bcast |-> Append(h.bcast, ev)]

\* broadcast(conversationId, 'message', data): write to every client of the
\* set, then remove the clients whose write threw
broadcast(h, ev) ==
  LET deadClients == {c \in h.connections : writeThrows(c)}
  IN  [connections |-> h.connections \ deadClients,
       out |-> [c \in Clients |-> IF c \in h.connections /\ writeArrives(c)
                                    THEN Append(h.out[c], ev) ELSE h.out[c]],
       bcast |-> Append(h.bcast, ev)]

RECURSIVE broadcastAll(_, _)
broadcastAll(h, evs) ==
  IF evs = <<>> THEN h ELSE broadcastAll(broadcast(h, Head(evs)), Tail(evs))

Hub == [connections |-> connections, out |-> out, bcast |-> bcast]

SetHub(h) ==
  /\ connections' = h.connections
  /\ out' = h.out
  /\ bcast' = h.bcast

\* a chat submission not yet made; a connection not yet opened
NewRun ==
  [pc |-> "idle", userMessage |-> "", botMsgId |-> -1, fullReply |-> <<>>,
   streamId |-> -1, text |-> <<>>, calls |-> <<>>, nchunks |-> 0,
   existing |-> FALSE, response |-> "none", cause |-> "none", rounds |-> 0,
   city |-> "null"]

\* the answer of the resume endpoint, none yet
NoReply == [code |-> 0, text |-> <<>>, status |-> "none", isStreaming |-> FALSE]

NoMessage == [id |-> <<"none", 0>>, type |-> "none", text |-> <<>>, streaming |-> FALSE]

\* useStreamManager before its effect has run: no EventSource, no timer
NewHook ==
  [es |-> "none", mounted |-> FALSE, reconnectAttempts |-> 0, reconnectTimeout |-> 0,
   errors |-> 0, sinceOpen |-> 0]

\* ChatCard before any event: messages, isTyping; seen counts the events handled
NewCard == [messages |-> <<>>, isTyping |-> FALSE, seen |-> 0]

NewClient ==
  [pc |-> "none", sock |-> "open", heartbeat |-> FALSE, listening |-> FALSE,
   joinedAt |-> 0, sid |-> 0, rank |-> 0, lastEventId |-> <<-1, -1>>,
   since |-> -1, replayed |-> FALSE, closedAt |-> 0,
   reply |-> NoReply, msg |-> NoMessage, hook |-> NewHook,
   card |-> NewCard, served |-> <<>>]

\* ---------------------------------------------- the environment of the registry
Tick(limit) ==
  /\ now < limit
  /\ now' = now + 1

RedisFails ==
  /\ redisUp
  /\ redisUp' = FALSE

RedisRecovers ==
  /\ ~redisUp
  /\ redisUp' = TRUE

\* Redis drops a key whose expiry has passed
ExpireLog(sid) ==
  /\ logTTL[sid]
  /\ redisLog' = [redisLog EXCEPT ![sid] = <<>>]
  /\ logTTL' = [logTTL EXCEPT ![sid] = FALSE]

\* ------------------------------------------- a caller of the registry's methods
\* One caller issues createStream, appendToStream, completeStream and
\* resumeStream one after the other on the keys SMKeys; each method is cut at
\* its awaits.  smh records, per key, the fragments handed to appendToStream
\* on an existing session, the number of createStream calls, whether a Redis
\* command of a call failed, whether the log expired, whether completeStream
\* returned a session, when appendToStream last took a fragment, and the last
\* result of resumeStream.
SMKeys == {0}

NoResult ==
  [valid |-> FALSE, sid |-> 0, afterComplete |-> FALSE, logGone |-> FALSE,
   readFailed |-> FALSE, res |-> NotFound]

SMIdle == [pc |-> "idle", sid |-> 0, chunk |-> <<>>]

InitSM ==
  /\ now = 0
  /\ redisUp = TRUE
  /\ activeStreams = [sid \in StreamIds |-> NoStream]
  /\ redisLog = [sid \in StreamIds |-> <<>>]
  /\ logTTL = [sid \in StreamIds |-> FALSE]
  /\ sm = SMIdle
  /\ smh = [appended |-> [sid \in StreamIds |-> <<>>],
            created |-> [sid \in StreamIds |-> 0],
            faulted |-> [sid \in StreamIds |-> FALSE],
            expired |-> [sid \in StreamIds |-> FALSE],
            completed |-> [sid \in StreamIds |-> FALSE],
            lastAppend |-> [sid \in StreamIds |-> 0],
            notFound |-> FALSE,
            result |-> NoResult]
  /\ mongoUp = TRUE
  /\ conv = NoConversation
  /\ cache = NoCache
  /\ connections = {}
  /\ cl = [c \in Clients |-> NewClient]
  /\ out = [c \in Clients |-> <<>>]
  /\ bcast = <<>>
  /\ run = [r \in Runs |-> NewRun]

\* createStream up to its await of setEx
SMCreateStream(sid) ==
  /\ sm.pc = "idle"
  /\ smh.created[sid] < MaxCreates
  /\ activeStreams' = createStreamSet(activeStreams, sid, now)
  /\ sm' = [pc |-> "create_setex", sid |-> sid, chunk |-> <<>>]
  /\ smh' = [smh EXCEPT !.created[sid] = @ + 1, !.result = NoResult, !.notFound = FALSE]
  /\ UNCHANGED <<now, redisUp, redisLog, logTTL, appVars>>

\* setEx(`${streamId}:meta`, 7200, ...) answers or throws; nothing reads the key
SMCreateSetEx ==
  /\ sm.pc = "create_setex"
  /\ sm' = SMIdle
  /\ smh' = IF redisUp THEN smh ELSE [smh EXCEPT !.faulted[sm.sid] = TRUE]
  /\ UNCHANGED <<now, redisUp, activeStreams, redisLog, logTTL, appVars>>

\* appendToStream, had it no check of the session: it appends whatever it finds
SMAppendToStreamUnchecked(sid, f) ==
  /\ sm.pc = "idle"
  /\ Len(smh.appended[sid]) < MaxAppends
  /\ activeStreams' = appendText(activeStreams, sid, <<f>>)
  /\ sm' = [pc |-> "append_xadd", sid |-> sid, chunk |-> <<f>>]
  /\ smh' = [smh EXCEPT !.appended[sid] = @ \o <<f>>, !.result = NoResult,
                        !.notFound = FALSE, !.lastAppend[sid] = now]
  /\ UNCHANGED <<now, redisUp, redisLog, logTTL, appVars>>

\* appendToStream up to its await of xAdd; throws when the session is unknown
SMAppendToStream(sid, f) ==
  /\ sm.pc = "idle"
  /\ Len(smh.appended[sid]) < MaxAppends
  /\ IF ~activeStreams[sid].present
       THEN /\ smh' = [smh EXCEPT !.notFound = TRUE, !.result = NoResult]
            /\ UNCHANGED <<sm, activeStreams>>
       ELSE /\ activeStreams' = appendText(activeStreams, sid, <<f>>)
            /\ sm' = [pc |-> "append_xadd", sid |-> sid, chunk |-> <<f>>]
            /\ smh' = [smh EXCEPT !.appended[sid] = @ \o <<f>>, !.result = NoResult,
                                  !.notFound = FALSE, !.lastAppend[sid] = now]
  /\ UNCHANGED <<now, redisUp, redisLog, logTTL, appVars>>

\* xAdd(streamId, '*', {type: 'token', content: chunk}) answers or throws
SMAppendXAdd ==
  /\ sm.pc = "append_xadd"
  /\ IF redisUp
       THEN /\ redisLog' = xAdd(redisLog, sm.sid, TokenEvent(sm.chunk))
            /\ sm' = [sm EXCEPT !.pc = "append_expire"]
            /\ smh' = smh
       ELSE /\ sm' = SMIdle
            /\ smh' = [smh EXCEPT !.faulted[sm.sid] = TRUE]
            /\ UNCHANGED redisLog
  /\ UNCHANGED <<now, redisUp, activeStreams, logTTL, appVars>>

\* expire(streamId, 7200) answers or throws
SMAppendExpire ==
  /\ sm.pc = "append_expire"
  /\ sm' = SMIdle
  /\ IF redisUp
       THEN /\ logTTL' = [logTTL EXCEPT ![sm.sid] = TRUE]
            /\ smh' = smh
       ELSE /\ smh' = [smh EXCEPT !.faulted[sm.sid] = TRUE]
            /\ UNCHANGED logTTL
  /\ UNCHANGED <<now, redisUp, activeStreams, redisLog, appVars>>

\* completeStream up to its await of xAdd; returns null when the session is unknown
SMCompleteStream(sid) ==
  /\ sm.pc = "idle"
  /\ smh' = [smh EXCEPT !.result = NoResult, !.notFound = FALSE]
  /\ IF ~activeStreams[sid].present
       THEN UNCHANGED <<sm, activeStreams>>
       ELSE /\ activeStreams' = markCompleted(activeStreams, sid)
            /\ sm' = [pc |-> "complete_xadd", sid |-> sid, chunk |-> <<>>]
  /\ UNCHANGED <<now, redisUp, redisLog, logTTL, appVars>>

\* xAdd(streamId, '*', {type: 'complete'}) answers, and the session is deleted
\* and returned, or it throws and the session stays
SMCompleteXAdd ==
  /\ sm.pc = "complete_xadd"
  /\ sm' = SMIdle
  /\ IF redisUp
       THEN /\ redisLog' = xAdd(redisLog, sm.sid, CompleteEvent)
            /\ activeStreams' = deleteStream(activeStreams, sm.sid)
            /\ smh' = [smh EXCEPT !.completed[sm.sid] = TRUE]
       ELSE /\ smh' = [smh EXCEPT !.faulted[sm.sid] = TRUE]
            /\ UNCHANGED <<redisLog, activeStreams>>
  /\ UNCHANGED <<now, redisUp, logTTL, appVars>>

\* resumeStream: answers from activeStreams, or goes on to await xRange
SMResumeStream(sid) ==
  /\ sm.pc = "idle"
  /\ IF activeStreams[sid].present
       THEN /\ smh' = [smh EXCEPT !.notFound = FALSE,
                         !.result = [valid |-> TRUE, sid |-> sid,
                                     afterComplete |-> smh.completed[sid],
                                     logGone |-> smh.expired[sid], readFailed |-> FALSE,
                                     res |-> resumeFromMemory(activeStreams, sid)]]
            /\ UNCHANGED sm
       ELSE /\ smh' = [smh EXCEPT !.notFound = FALSE,
                         !.result = [NoResult EXCEPT !.sid = sid,
                                                     !.afterComplete = smh.completed[sid]]]
            /\ sm' = [pc |-> "resume_xrange", sid |-> sid, chunk |-> <<>>]
  /\ UNCHANGED <<now, redisUp, activeStreams, redisLog, logTTL, appVars>>

\* xRange(streamId, '-', '+') answers, or throws and the catch returns found: false
SMResumeXRange ==
  /\ sm.pc = "resume_xrange"
  /\ sm' = SMIdle
  /\ smh' = [smh EXCEPT !.result =
               [valid |-> TRUE, sid |-> sm.sid, afterComplete |-> smh.result.afterComplete,
                logGone |-> smh.expired[sm.sid], readFailed |-> ~redisUp,
                res |-> IF redisUp THEN resumeFromLog(xRange(redisLog, sm.sid))
                        ELSE NotFound]]
  /\ UNCHANGED <<now, redisUp, activeStreams, redisLog, logTTL, appVars>>

\* setInterval(() => streamManager.cleanup(), ...)
SMCleanup ==
  /\ activeStreams' = cleanupStreams(activeStreams, now)
  /\ activeStreams' # activeStreams
  /\ UNCHANGED <<now, redisUp, redisLog, logTTL, sm, smh, appVars>>

SMTick ==
  /\ Tick(MaxClock)
  /\ UNCHANGED <<redisUp, activeStreams, redisLog, logTTL, sm, smh, appVars>>

SMRedisFails ==
  /\ RedisFails
  /\ UNCHANGED <<now, activeStreams, redisLog, logTTL, sm, smh, appVars>>

SMRedisRecovers ==
  /\ RedisRecovers
  /\ UNCHANGED <<now, activeStreams, redisLog, logTTL, sm, smh, appVars>>

SMExpireLog(sid) ==
  /\ ExpireLog(sid)
  /\ smh' = [smh EXCEPT !.expired[sid] = TRUE]
  /\ UNCHANGED <<now, redisUp, activeStreams, sm, appVars>>

NextSM ==
  \/ \E sid \in SMKeys : SMCreateStream(sid)
  \/ SMCreateSetEx
  \/ \E sid \in SMKeys, f \in Frags : SMAppendToStream(sid, f)
  \/ SMAppendXAdd
  \/ SMAppendExpire
  \/ \E sid \in SMKeys : SMCompleteStream(sid)
  \/ SMCompleteXAdd
  \/ \E sid \in SMKeys : SMResumeStream(sid)
  \/ SMResumeXRange
  \/ SMCleanup
  \/ SMTick
  \/ SMRedisFails
  \/ SMRedisRecovers
  \/ \E sid \in SMKeys : SMExpireLog(sid)

SpecSM == InitSM /\ [][NextSM]_vars

\* ------------------------------------------ POST /api/chat/:conversationId
hubVars == <<connections, out, bcast>>

\* the catch of the background run: issue the $pull and await it; cause names
\* what threw: "llm", "tool", "store" (MongoDB), "log" (Redis), "session"
EnterCatch(r, cause) == [run EXCEPT ![r].pc = "catch_pull", ![r].cause = cause]

RECURSIVE skipOtherTools(_)
\* for (const call of aiMessage.tool_calls) if (call.name === "get_weather") ...
skipOtherTools(calls) ==
  IF calls # <<>> /\ Head(calls) # "get_weather" THEN skipOtherTools(Tail(calls)) ELSE calls

ToolNames == {"get_weather", "other"}
ToolCallLists == UNION {[1..n -> ToolNames] : n \in 0..MaxToolCalls}

\* POST /api/conversations: a conversation document is saved
CreateConversation ==
  /\ mongoUp
  /\ ~conv.exists
  /\ conv' = NewConversation
  /\ cache' = setCachedConversation(NewConversation, now)
  /\ UNCHANGED <<now, redisUp, activeStreams, redisLog, logTTL, smDriver,
                 mongoUp, connections, cl, out, bcast, run>>

\* ChatRequest, had the route no checkDBConnection in front of the handler
ChatRequestUnchecked(r, body) ==
  /\ run[r].pc = "idle"
  /\ run' = [run EXCEPT ![r] =
       IF trimBody(body) = "" THEN [@ EXCEPT !.pc = "answered", !.response = "400"]
       ELSE [@ EXCEPT !.pc = "h_find", !.userMessage = trimBody(body)]]
  /\ UNCHANGED <<now, redisUp, activeStreams, redisLog, logTTL, smDriver, cache,
                 mongoUp, conv, connections, cl, out, bcast>>

\* checkDBConnection, the check of the message, and the await of findOne
ChatRequest(r, body) ==
  /\ run[r].pc = "idle"
  /\ run' = [run EXCEPT ![r] =
       IF ~mongoUp THEN [@ EXCEPT !.pc = "answered", !.response = "503"]
       ELSE IF trimBody(body) = "" THEN [@ EXCEPT !.pc = "answered", !.response = "400"]
       ELSE [@ EXCEPT !.pc = "h_find", !.userMessage = trimBody(body)]]
  /\ UNCHANGED <<now, redisUp, activeStreams, redisLog, logTTL, smDriver, cache,
                 mongoUp, conv, connections, cl, out, bcast>>

\* Conversation.findOne answers (an unsaved Conversation is built when none is
\* found) and the $push of the user message is issued, or it throws: 500
ChatFind(r) ==
  /\ run[r].pc = "h_find"
  /\ run' = [run EXCEPT ![r] =
       IF mongoUp THEN [@ EXCEPT !.pc = "h_push"]
       ELSE [@ EXCEPT !.pc = "answered", !.response = "500"]]
  /\ UNCHANGED <<now, redisUp, activeStreams, redisLog, logTTL, smDriver, cache,
                 mongoUp, conv, connections, cl, out, bcast>>

\* the $push of the user message answers; the cache entry is deleted, the
\* message is broadcast, the request
\* answered with success and the background run scheduled with setImmediate
ChatPush(r) ==
  /\ run[r].pc = "h_push"
  /\ IF mongoUp
       THEN /\ conv' = pushMessage(conv, Message(UserId(r), "user", <<run[r].userMessage>>, FALSE))
            /\ cache' = invalidateCache(cache)
            /\ SetHub(broadcast(Hub, UserMessageEvent(r, run[r].userMessage)))
            /\ run' = [run EXCEPT ![r].pc = "bg_start", ![r].response = "success"]
       ELSE /\ run' = [run EXCEPT ![r].pc = "answered", ![r].response = "500"]
            /\ UNCHANGED <<conv, cache, hubVars>>
  /\ UNCHANGED <<now, redisUp, activeStreams, redisLog, logTTL, smDriver, mongoUp, cl>>

\* the setImmediate callback starts: botMsgId, fullReply, streamId; await findOne
BgStart(r) ==
  /\ run[r].pc = "bg_start"
  /\ run' = [run EXCEPT ![r].pc = "bg_find", ![r].botMsgId = now,
                        ![r].fullReply = <<>>, ![r].streamId = -1]
  /\ UNCHANGED <<now, redisUp, activeStreams, redisLog, logTTL, smDriver, cache,
                 mongoUp, conv, connections, cl, out, bcast>>

\* findOne answers: no conversation, return; else status "processing" and
\* the await of llmWithTools.invoke
BgFind(r) ==
  /\ run[r].pc = "bg_find"
  /\ IF ~mongoUp
       THEN /\ run' = EnterCatch(r, "store")
            /\ UNCHANGED hubVars
       ELSE IF ~conv.exists
       THEN /\ run' = [run EXCEPT ![r].pc = "returned"]
            /\ UNCHANGED hubVars
       ELSE /\ SetHub(broadcast(Hub, StatusEvent("processing")))
            /\ run' = [run EXCEPT ![r].pc = "tool_decision"]
  /\ UNCHANGED <<now, redisUp, activeStreams, redisLog, logTTL, smDriver, cache, mongoUp, conv, cl>>

\* createStream up to its await of setEx, as the run calls it
RunCreateStream(r, calls) ==
  /\ activeStreams' = createStreamSet(activeStreams, run[r].botMsgId, now)
  /\ run' = [run EXCEPT ![r].pc = "create_setex", ![r].calls = calls]

\* llmWithTools.invoke answers with tool calls or none, or throws; the first
\* get_weather call issues the update of lastCity
ToolDecision(r, ok, calls) ==
  /\ run[r].pc = "tool_decision"
  /\ IF ~ok
       THEN /\ run' = EnterCatch(r, "llm")
            /\ UNCHANGED activeStreams
       ELSE IF skipOtherTools(calls) = <<>>
       THEN RunCreateStream(r, <<>>)
       ELSE /\ run' = [run EXCEPT ![r].pc = "tool_city", ![r].calls = skipOtherTools(calls)]
            /\ UNCHANGED activeStreams
  /\ UNCHANGED <<now, redisUp, redisLog, logTTL, smDriver, cache,
                 mongoUp, conv, connections, cl, out, bcast>>

\* the update of lastCity answers; status "Fetching weather data..."; await
\* getWeatherTool.invoke
ToolCity(r) ==
  /\ run[r].pc = "tool_city"
  /\ IF mongoUp
       THEN /\ conv' = setLastCity(conv, "city")
            /\ SetHub(broadcast(Hub, StatusEvent("Fetching weather data...")))
            /\ run' = [run EXCEPT ![r].pc = "tool_invoke"]
       ELSE /\ run' = EnterCatch(r, "store")
            /\ UNCHANGED <<conv, hubVars>>
  /\ UNCHANGED <<now, redisUp, activeStreams, redisLog, logTTL, smDriver, cache, mongoUp, cl>>

\* getWeatherTool.invoke answers or throws; then the next get_weather call, or
\* createStream
ToolInvoke(r, ok) ==
  /\ run[r].pc = "tool_invoke"
  /\ IF ~ok
       THEN /\ run' = EnterCatch(r, "tool")
            /\ UNCHANGED activeStreams
       ELSE IF skipOtherTools(Tail(run[r].calls)) = <<>>
       THEN RunCreateStream(r, <<>>)
       ELSE /\ run' = [run EXCEPT ![r].pc = "tool_city",
                                  ![r].calls = skipOtherTools(Tail(run[r].calls))]
            /\ UNCHANGED activeStreams
  /\ UNCHANGED <<now, redisUp, redisLog, logTTL, smDriver, cache,
                 mongoUp, conv, connections, cl, out, bcast>>

\* setEx of createStream answers: streamId is assigned, status "generating" is
\* broadcast and llm.stream awaited; or it throws with streamId still null
CreateSetEx(r) ==
  /\ run[r].pc = "create_setex"
  /\ IF redisUp
       THEN /\ SetHub(broadcast(Hub, StatusEvent("generating")))
            /\ run' = [run EXCEPT ![r].pc = "llm_stream", ![r].streamId = run[r].botMsgId]
       ELSE /\ run' = EnterCatch(r, "log")
            /\ UNCHANGED hubVars
  /\ UNCHANGED <<now, redisUp, activeStreams, redisLog, logTTL, smDriver, cache, mongoUp, conv, cl>>

\* llm.stream answers with the stream, or throws
LlmStream(r, ok) ==
  /\ run[r].pc = "llm_stream"
  /\ run' = IF ok THEN [run EXCEPT ![r].pc = "next_chunk"] ELSE EnterCatch(r, "llm")
  /\ UNCHANGED <<now, redisUp, activeStreams, redisLog, logTTL, smDriver, cache,
                 mongoUp, conv, connections, cl, out, bcast>>

\* the stream yields a chunk with text: fullReply += text, and appendToStream
\* up to its await of xAdd (it throws when the session is not in activeStreams)
ChunkText(r, f) ==
  /\ run[r].pc = "next_chunk"
  /\ run[r].nchunks < MaxFrags
  /\ IF activeStreams[run[r].streamId].present
       THEN /\ activeStreams' = appendText(activeStreams, run[r].streamId, <<f>>)
            /\ run' = [run EXCEPT ![r].pc = "append_xadd", ![r].text = <<f>>,
                                  ![r].fullReply = @ \o <<f>>, ![r].nchunks = @ + 1]
       ELSE /\ run' = [run EXCEPT ![r].pc = "catch_pull", ![r].cause = "session",
                                  ![r].text = <<f>>, ![r].fullReply = @ \o <<f>>,
                                  ![r].nchunks = @ + 1]
            /\ UNCHANGED activeStreams
  /\ UNCHANGED <<now, redisUp, redisLog, logTTL, smDriver, cache,
                 mongoUp, conv, connections, cl, out, bcast>>

\* the stream throws
ChunkThrows(r) ==
  /\ run[r].pc = "next_chunk"
  /\ run' = EnterCatch(r, "llm")
  /\ UNCHANGED <<now, redisUp, activeStreams, redisLog, logTTL, smDriver, cache,
                 mongoUp, conv, connections, cl, out, bcast>>

\* the stream is exhausted: the safety fallback, then completeStream up to its
\* await of xAdd; it returns null when the session is not in activeStreams, and
\* the final save is issued
StreamEnds(r) ==
  /\ run[r].pc = "next_chunk"
  /\ IF activeStreams[run[r].streamId].present
       THEN /\ activeStreams' = markCompleted(activeStreams, run[r].streamId)
            /\ run' = [run EXCEPT ![r].pc = "complete_xadd",
                                  ![r].fullReply = safetyFallback(@)]
       ELSE /\ run' = [run EXCEPT ![r].pc = "final_save",
                                  ![r].fullReply = safetyFallback(@)]
            /\ UNCHANGED activeStreams
  /\ UNCHANGED <<now, redisUp, redisLog, logTTL, smDriver, cache,
                 mongoUp, conv, connections, cl, out, bcast>>

\* xAdd of appendToStream answers or throws
AppendXAdd(r) ==
  /\ run[r].pc = "append_xadd"
  /\ IF redisUp
       THEN /\ redisLog' = xAdd(redisLog, run[r].streamId, TokenEvent(run[r].text))
            /\ run' = [run EXCEPT ![r].pc = "append_expire"]
       ELSE /\ run' = EnterCatch(r, "log")
            /\ UNCHANGED redisLog
  /\ UNCHANGED <<now, redisUp, activeStreams, logTTL, smDriver, cache,
                 mongoUp, conv, connections, cl, out, bcast>>

\* expire of appendToStream answers: the token is broadcast and the findOne of
\* the per-token persistence awaited; or it throws
AppendExpire(r) ==
  /\ run[r].pc = "append_expire"
  /\ IF redisUp
       THEN /\ logTTL' = [logTTL EXCEPT ![run[r].streamId] = TRUE]
            /\ SetHub(broadcast(Hub, TokenBroadcast(run[r].text, BotId(run[r].botMsgId))))
            /\ run' = [run EXCEPT ![r].pc = "persist_find"]
       ELSE /\ run' = EnterCatch(r, "log")
            /\ UNCHANGED <<logTTL, hubVars>>
  /\ UNCHANGED <<now, redisUp, activeStreams, redisLog, smDriver, cache, mongoUp, conv, cl>>

\* findOne({ conversationId, "messages.id": botMsgId }) answers or throws
PersistFind(r) ==
  /\ run[r].pc = "persist_find"
  /\ run' = IF mongoUp
              THEN [run EXCEPT ![r].pc = "persist_write",
                               ![r].existing = hasMessage(conv, BotId(run[r].botMsgId))]
              ELSE EnterCatch(r, "store")
  /\ UNCHANGED <<now, redisUp, activeStreams, redisLog, logTTL, smDriver, cache,
                 mongoUp, conv, connections, cl, out, bcast>>

\* the $push of the new bot message (first token) or the $set of its text
\* answers or throws
PersistWrite(r) ==
  /\ run[r].pc = "persist_write"
  /\ IF mongoUp
       THEN /\ conv' = IF run[r].existing
                         THEN setMessageText(conv, BotId(run[r].botMsgId), run[r].fullReply)
                         ELSE pushMessage(conv, Message(BotId(run[r].botMsgId), "bot",
                                                        run[r].fullReply, TRUE))
            /\ run' = [run EXCEPT ![r].pc = "next_chunk"]
       ELSE /\ run' = EnterCatch(r, "store")
            /\ UNCHANGED conv
  /\ UNCHANGED <<now, redisUp, activeStreams, redisLog, logTTL, smDriver, cache,
                 mongoUp, connections, cl, out, bcast>>

\* xAdd of completeStream answers: the session is deleted and the final save
\* issued; or it throws and the session stays, marked completed
CompleteXAdd(r) ==
  /\ run[r].pc = "complete_xadd"
  /\ IF redisUp
       THEN /\ redisLog' = xAdd(redisLog, run[r].streamId, CompleteEvent)
            /\ activeStreams' = deleteStream(activeStreams, run[r].streamId)
            /\ run' = [run EXCEPT ![r].pc = "final_save"]
       ELSE /\ run' = EnterCatch(r, "log")
            /\ UNCHANGED <<redisLog, activeStreams>>
  /\ UNCHANGED <<now, redisUp, logTTL, smDriver, cache, mongoUp, conv, connections, cl, out, bcast>>

\* the final save answers, the cache entry is deleted and `done` is
\* broadcast, or it throws
FinalSave(r) ==
  /\ run[r].pc = "final_save"
  /\ IF mongoUp
       THEN /\ conv' = finalSave(conv, BotId(run[r].botMsgId), run[r].fullReply,
                                 run[r].userMessage)
            /\ cache' = invalidateCache(cache)
            /\ SetHub(broadcast(Hub, DoneEvent(BotId(run[r].botMsgId))))
            /\ run' = [run EXCEPT ![r].pc = "done"]
       ELSE /\ run' = EnterCatch(r, "store")
            /\ UNCHANGED <<conv, cache, hubVars>>
  /\ UNCHANGED <<now, redisUp, activeStreams, redisLog, logTTL, smDriver, mongoUp, cl>>

\* the $pull of the catch answers: the apology message and `done` are
\* broadcast; or it throws out of the callback (an unhandled rejection)
CatchPull(r) ==
  /\ run[r].pc = "catch_pull"
  /\ IF mongoUp
       THEN /\ conv' = pullMessage(conv, BotId(run[r].botMsgId))
            /\ SetHub(broadcastAll(Hub, <<ApologyEvent(now), DoneEvent(BotId(run[r].botMsgId))>>))
            /\ run' = [run EXCEPT ![r].pc = "errored"]
       ELSE /\ run' = [run EXCEPT ![r].pc = "crashed"]
            /\ UNCHANGED <<conv, hubVars>>
  /\ UNCHANGED <<now, redisUp, activeStreams, redisLog, logTTL, smDriver, cache, mongoUp, cl>>

\* ------------------------------------------ GET /api/stream/:conversationId
\* allMessages.find(m => m.streaming)
streamingMsgs(msgs) == SelectSeq(msgs, LAMBDA m : m.streaming)

\* the stream key `stream:${conversationId}:${streamingMsg.id}` of a bot message
streamIdOf(m) == m.id[2]

\* registerConnection, had the handler left addConnection out
registerConnectionSkipped(conns, c) == conns

\* the handler registers the connection: sseManager.addConnection(conversationId, res)
registerConnection(conns, c) == addConnection(conns, c)

\* sendResume, had the `resume` frame gone out ahead of what was written before
sendResumeFirst(o, c, id, res) ==
  IF res.found /\ res.status = "active" /\ writeArrives(c)
    THEN [o EXCEPT ![c] = <<ResumeEvent(id, res.text)>> \o @]
    ELSE o

\* the `resume` event is sent when resumeStream reports found and active
sendResume(o, c, id, res) ==
  IF res.found /\ res.status = "active" THEN sendToClient(o, c, ResumeEvent(id, res.text)) ELSE o

\* the handler starts: setupSSE (the heartbeat timer), addConnection, then the
\* await of findOne when Last-Event-ID is given, else the `connected` event
\* and the registration of the close listener
Connect(c, cursor) ==
  /\ cl[c].pc = "none"
  /\ connections' = registerConnection(connections, c)
  /\ IF cursor
       THEN /\ cl' = [cl EXCEPT ![c].pc = "sync_find", ![c].heartbeat = TRUE,
                                ![c].joinedAt = Len(bcast)]
            /\ UNCHANGED out
       ELSE /\ cl' = [cl EXCEPT ![c].pc = "open", ![c].heartbeat = TRUE,
                                ![c].listening = TRUE, ![c].joinedAt = Len(bcast)]
            /\ out' = sendToClient(out, c, ConnectedEvent)
  /\ UNCHANGED <<now, redisUp, activeStreams, redisLog, logTTL, smDriver, cache,
                 mongoUp, conv, bcast, run>>

\* findOne answers: the sync event, then resumeStream on the first streaming
\* message (answered at once from activeStreams, else xRange is awaited); a
\* throw is caught and logged.  Then the close listener is registered.
SyncFind(c) ==
  /\ cl[c].pc = "sync_find"
  /\ IF mongoUp /\ conv.exists /\ Len(conv.messages) > 0
       THEN LET synced == sendToClient(out, c, SyncEvent(conv.messages))
                streaming == streamingMsgs(conv.messages)
            IN  IF streaming = <<>>
                  THEN /\ out' = synced
                       /\ cl' = [cl EXCEPT ![c].pc = "open", ![c].listening = TRUE]
                ELSE IF activeStreams[streamIdOf(Head(streaming))].present
                  THEN /\ out' = sendResume(synced, c, Head(streaming).id,
                                   resumeFromMemory(activeStreams, streamIdOf(Head(streaming))))
                       /\ cl' = [cl EXCEPT ![c].pc = "open", ![c].listening = TRUE]
                  ELSE /\ out' = synced
                       /\ cl' = [cl EXCEPT ![c].pc = "resume_xrange",
                                           ![c].sid = streamIdOf(Head(streaming))]
       ELSE /\ cl' = [cl EXCEPT ![c].pc = "open", ![c].listening = TRUE]
            /\ UNCHANGED out
  /\ UNCHANGED <<now, redisUp, activeStreams, redisLog, logTTL, smDriver, cache,
                 mongoUp, conv, connections, bcast, run>>

\* xRange of resumeStream answers, or throws and found: false is returned
ResumeXRange(c) ==
  /\ cl[c].pc = "resume_xrange"
  /\ out' = sendResume(out, c, BotId(cl[c].sid),
                       IF redisUp THEN resumeFromLog(xRange(redisLog, cl[c].sid)) ELSE NotFound)
  /\ cl' = [cl EXCEPT ![c].pc = "open", ![c].listening = TRUE]
  /\ UNCHANGED <<now, redisUp, activeStreams, redisLog, logTTL, smDriver, cache,
                 mongoUp, conv, connections, bcast, run>>

\* the peer closes the connection; req's "close" listener, if registered by
\* then, stops the heartbeat and removes the connection
ClientClose(c) ==
  /\ cl[c].pc # "none"
  /\ cl[c].sock # "closed"
  /\ IF cl[c].listening
       THEN /\ cl' = [cl EXCEPT ![c].sock = "closed", ![c].heartbeat = FALSE,
                                ![c].closedAt = Len(bcast)]
            /\ connections' = removeConnection(connections, c)
       ELSE /\ cl' = [cl EXCEPT ![c].sock = "closed", ![c].closedAt = Len(bcast)]
            /\ UNCHANGED connections
  /\ UNCHANGED <<now, redisUp, activeStreams, redisLog, logTTL, smDriver, cache,
                 mongoUp, conv, out, bcast, run>>

\* the socket gets into a state in which write throws
BreakSocket(c) ==
  /\ cl[c].pc # "none"
  /\ cl[c].sock = "open"
  /\ cl' = [cl EXCEPT ![c].sock = "broken"]
  /\ UNCHANGED <<now, redisUp, activeStreams, redisLog, logTTL, smDriver, cache,
                 mongoUp, conv, connections, out, bcast, run>>

\* the heartbeat timer fires: a comment frame is written; a throw stops the timer
Heartbeat(c) ==
  /\ cl[c].heartbeat
  /\ cl' = IF writeThrows(c) THEN [cl EXCEPT ![c].heartbeat = FALSE] ELSE cl
  /\ UNCHANGED <<now, redisUp, activeStreams, redisLog, logTTL, smDriver, cache,
                 mongoUp, conv, connections, out, bcast, run>>

\* ------------------------------------------------- the environment of the app
MongoFails ==
  /\ mongoUp
  /\ mongoUp' = FALSE
  /\ UNCHANGED <<now, redisUp, activeStreams, redisLog, logTTL, smDriver, cache,
                 conv, connections, cl, out, bcast, run>>

MongoRecovers ==
  /\ ~mongoUp
  /\ mongoUp' = TRUE
  /\ UNCHANGED <<now, redisUp, activeStreams, redisLog, logTTL, smDriver, cache,
                 conv, connections, cl, out, bcast, run>>

AppRedisFails ==
  /\ RedisFails
  /\ UNCHANGED <<now, activeStreams, redisLog, logTTL, smDriver, appVars>>

AppRedisRecovers ==
  /\ RedisRecovers
  /\ UNCHANGED <<now, activeStreams, redisLog, logTTL, smDriver, appVars>>

AppTick ==
  /\ Tick(MaxRunClock)
  /\ UNCHANGED <<redisUp, activeStreams, redisLog, logTTL, smDriver, appVars>>

\* ---------------------------------------------------------- specifications
RunStep(r) ==
  \/ \E body \in Bodies : ChatRequest(r, body)
  \/ ChatFind(r)
  \/ ChatPush(r)
  \/ BgStart(r)
  \/ BgFind(r)
  \/ \E ok \in BOOLEAN, calls \in ToolCallLists : ToolDecision(r, ok, calls)
  \/ ToolCity(r)
  \/ \E ok \in BOOLEAN : ToolInvoke(r, ok)
  \/ CreateSetEx(r)
  \/ \E ok \in BOOLEAN : LlmStream(r, ok)
  \/ \E f \in Frags : ChunkText(r, f)
  \/ ChunkThrows(r)
  \/ StreamEnds(r)
  \/ AppendXAdd(r)
  \/ AppendExpire(r)
  \/ PersistFind(r)
  \/ PersistWrite(r)
  \/ CompleteXAdd(r)
  \/ FinalSave(r)
  \/ CatchPull(r)

ClientStep(c) ==
  \/ \E cursor \in BOOLEAN : Connect(c, cursor)
  \/ SyncFind(c)
  \/ ResumeXRange(c)
  \/ ClientClose(c)
  \/ BreakSocket(c)
  \/ Heartbeat(c)

\* a chat submission whose LLM calls no tool, never throws and yields "a"
PlainStep(r) ==
  \/ ChatRequest(r, "hi")
  \/ ChatFind(r)
  \/ ChatPush(r)
  \/ BgStart(r)
  \/ BgFind(r)
  \/ ToolDecision(r, TRUE, <<>>)
  \/ CreateSetEx(r)
  \/ LlmStream(r, TRUE)
  \/ ChunkText(r, "a")
  \/ StreamEnds(r)
  \/ AppendXAdd(r)
  \/ AppendExpire(r)
  \/ PersistFind(r)
  \/ PersistWrite(r)
  \/ CompleteXAdd(r)
  \/ FinalSave(r)
  \/ CatchPull(r)

Init == InitSM

\* one chat submission, one connection, and every failure of the stores
Next ==
  \/ CreateConversation
  \/ RunStep(1)
  \/ ClientStep(1)
  \/ MongoFails
  \/ MongoRecovers
  \/ AppRedisFails
  \/ AppRedisRecovers

Spec == Init /\ [][Next]_vars

\* one chat submission and one connection, the stores always answering
NextCalm ==
  \/ CreateConversation
  \/ RunStep(1)
  \/ ClientStep(1)

SpecCalm == Init /\ [][NextCalm]_vars

\* several chat submissions in flight at once, the stores always answering
NextPair ==
  \/ CreateConversation
  \/ \E r \in Runs : PlainStep(r)
  \/ AppTick

SpecPair == Init /\ [][NextPair]_vars

\* a chat submission whose LLM calls no tool and yields "a", nothing failing
SteadyStep(r) ==
  \/ ChatRequest(r, "hi")
  \/ ChatFind(r)
  \/ ChatPush(r)
  \/ BgStart(r)
  \/ BgFind(r)
  \/ ToolDecision(r, TRUE, <<>>)
  \/ CreateSetEx(r)
  \/ LlmStream(r, TRUE)
  \/ ChunkText(r, "a")
  \/ StreamEnds(r)
  \/ AppendXAdd(r)
  \/ AppendExpire(r)
  \/ PersistFind(r)
  \/ PersistWrite(r)
  \/ CompleteXAdd(r)
  \/ FinalSave(r)

\* a connection opened without Last-Event-ID
FreshStep(c) ==
  \/ Connect(c, FALSE)
  \/ ClientClose(c)
  \/ BreakSocket(c)

\* one chat submission fanned out to several connections
NextFan ==
  \/ CreateConversation
  \/ SteadyStep(1)
  \/ \E c \in Clients : FreshStep(c)

SpecFan == Init /\ [][NextFan]_vars

\* the callbacks of a submitted chat and of a started stream handler: the
\* event loop runs each of them once the call it awaits has answered
RunProgress(r) == run[r].pc # "idle" /\ SteadyStep(r)
HandlerProgress(c) == SyncFind(c) \/ ResumeXRange(c)

\* one chat submission and one connection, every pending callback run in the end
NextLive ==
  \/ CreateConversation
  \/ SteadyStep(1)
  \/ ClientStep(1)

SpecLive ==
  /\ Init
  /\ [][NextLive]_vars
  /\ WF_vars(RunProgress(1))
  /\ WF_vars(HandlerProgress(1))

\* a connection opened with Last-Event-ID
ReconnectStep(c) ==
  \/ Connect(c, TRUE)
  \/ SyncFind(c)
  \/ ResumeXRange(c)

\* the second chat is submitted once the first reply's generation has ended,
\* at a later millisecond than the first run started
OverlapStep(r) ==
  /\ \/ run[r].pc # "idle"
     \/ run[1].pc \in {"complete_xadd", "final_save", "done"} /\ now > run[1].botMsgId
  /\ SteadyStep(r)

\* two chat submissions whose runs overlap, and a reconnecting connection
NextOverlap ==
  \/ CreateConversation
  \/ SteadyStep(1)
  \/ OverlapStep(2)
  \/ AppTick
  \/ ReconnectStep(1)

SpecOverlap == Init /\ [][NextOverlap]_vars

\* ------------------------------------- POST /api/chat, the non-streaming route
\* messages.push(aiMessage): the answers of llmWithTools.invoke in the
\* context, counted up to MaxRounds
pushAiMessage(n) == IF n < MaxRounds THEN n + 1 ELSE n

\* the check of the message, then the await of llmWithTools.invoke
LoopRequest(r, body) ==
  /\ run[r].pc = "idle"
  /\ run' = [run EXCEPT ![r] =
       IF trimBody(body) = "" THEN [@ EXCEPT !.pc = "answered", !.response = "400"]
       ELSE [@ EXCEPT !.pc = "loop_decision", !.userMessage = trimBody(body)]]
  /\ UNCHANGED <<now, redisUp, activeStreams, redisLog, logTTL, smDriver, cache,
                 mongoUp, conv, connections, cl, out, bcast>>

\* llmWithTools.invoke answers or throws (500); while the answer has tool
\* calls, the get_weather calls among them are invoked one after the other and
\* llmWithTools.invoke is awaited again; an answer without tool calls is the reply
LoopDecision(r, ok, calls) ==
  /\ run[r].pc = "loop_decision"
  /\ run' = [run EXCEPT ![r] =
       IF ~ok THEN [@ EXCEPT !.pc = "answered", !.response = "500"]
       ELSE IF calls = <<>>
         THEN [@ EXCEPT !.pc = "answered", !.response = "reply",
                        !.rounds = pushAiMessage(@)]
       ELSE IF skipOtherTools(calls) = <<>>
         THEN [@ EXCEPT !.rounds = pushAiMessage(@)]
       ELSE [@ EXCEPT !.pc = "loop_invoke", !.calls = skipOtherTools(calls),
                      !.rounds = pushAiMessage(@)]]
  /\ UNCHANGED <<now, redisUp, activeStreams, redisLog, logTTL, smDriver, cache,
                 mongoUp, conv, connections, cl, out, bcast>>

\* getWeatherTool.invoke answers or throws (500); then the next get_weather
\* call, or llmWithTools.invoke again
LoopInvoke(r, ok) ==
  /\ run[r].pc = "loop_invoke"
  /\ run' = [run EXCEPT ![r] =
       IF ~ok THEN [@ EXCEPT !.pc = "answered", !.response = "500", !.calls = <<>>]
       ELSE IF skipOtherTools(Tail(run[r].calls)) = <<>>
         THEN [@ EXCEPT !.pc = "loop_decision", !.calls = <<>>]
       ELSE [@ EXCEPT !.calls = skipOtherTools(Tail(run[r].calls))]]
  /\ UNCHANGED <<now, redisUp, activeStreams, redisLog, logTTL, smDriver, cache,
                 mongoUp, conv, connections, cl, out, bcast>>

\* the handler's continuations, run by the event loop once the awaited call answers
LoopProgress(r) ==
  \/ \E ok \in BOOLEAN, calls \in ToolCallLists : LoopDecision(r, ok, calls)
  \/ \E ok \in BOOLEAN : LoopInvoke(r, ok)

NextLoop ==
  \/ \E r \in Runs, body \in Bodies : LoopRequest(r, body)
  \/ \E r \in Runs : LoopProgress(r)

SpecLoop ==
  /\ Init
  /\ [][NextLoop]_vars
  /\ \A r \in Runs : WF_vars(LoopProgress(r))

\* ------------------- the log-backed routes: the stream handler and the chat run
\* The handler of GET /api/stream/:conversationId that keeps the events in the
\* Redis stream `stream:${conversationId}`, and the chat run that emits on
\* conversationEvents.  cl[c].rank is the place of c's handlers among the
\* listeners of conversationEvents (0: none registered), cl[c].lastEventId the
\* Last-Event-ID header of the request; cl[c].since records how many events
\* had been emitted when c first registered, cl[c].replayed that c went
\* through a replay; bcast records the events emitted.
ConvKey == 0

NoCursor == <<-1, -1>>

LogEntry(id, data) == [id |-> id, data |-> data]

\* the id Redis gives an entry added with '*': <ms>-<seq>
nextId(log, t) ==
  IF log # <<>> /\ log[Len(log)].id[1] = t
    THEN <<t, log[Len(log)].id[2] + 1>>
    ELSE <<t, 0>>

idAfter(a, b) == a[1] > b[1] \/ (a[1] = b[1] /\ a[2] > b[2])

\* xRange(streamKey, `(${lastEventId}`, '+')
xRangeAfter(log, cursor) == SelectSeq(log, LAMBDA e : idAfter(e.id, cursor))

\* the Last-Event-ID an EventSource sends: the id of the last event it received
lastEventIdOf(o) == IF o = <<>> THEN NoCursor ELSE o[Len(o)].id

\* the listeners of conversationEvents, in the order they were registered
listeners ==
  [i \in 1..Cardinality({c \in Clients : cl[c].rank > 0}) |->
     CHOOSE c \in Clients : cl[c].rank = i]

\* conversationEvents.on(...) for the four handlers of connection c
onHandlers(clients, c) ==
  [clients EXCEPT ![c].rank = Cardinality({d \in Clients : clients[d].rank > 0}) + 1]

\* conversationEvents.off(...) for the four handlers of connection c
offHandlers(clients, c) ==
  [d \in Clients |->
     IF d = c THEN [clients[d] EXCEPT !.rank = 0]
     ELSE IF clients[d].rank > clients[c].rank /\ clients[c].rank > 0
       THEN [clients[d] EXCEPT !.rank = @ - 1]
     ELSE clients[d]]

LogHub == [log |-> redisLog[ConvKey], ttl |-> logTTL[ConvKey], out |-> out, bcast |-> bcast]

SetLogHub(h) ==
  /\ redisLog' = [redisLog EXCEPT ![ConvKey] = h.log]
  /\ logTTL' = [logTTL EXCEPT ![ConvKey] = h.ttl]
  /\ out' = h.out
  /\ bcast' = h.bcast

\* messageHandler, tokenHandler, statusHandler, doneHandler of connection c:
\* xAdd of the event, then the write of it under the id xAdd returned (and, for
\* done, expire); a throw of xAdd is caught and logged
connectionHandler(h, c, ev) ==
  IF redisUp
    THEN [h EXCEPT !.log = Append(@, LogEntry(nextId(h.log, now), ev)),
                   !.out = sendToClient(@, c, LogEntry(nextId(h.log, now), ev)),
                   !.ttl = IF ev.type = "done" THEN TRUE ELSE @]
    ELSE h

RECURSIVE emitTo(_, _, _)
emitTo(h, ls, ev) ==
  IF ls = <<>> THEN h
  ELSE emitTo(connectionHandler(h, Head(ls), ev), Tail(ls), ev)

\* conversationEvents.emit: every registered handler is called with the event
emit(h, ev) == emitTo([h EXCEPT !.bcast = Append(@, ev)], listeners, ev)

RECURSIVE emitAll(_, _)
emitAll(h, evs) == IF evs = <<>> THEN h ELSE emitAll(emit(h, Head(evs)), Tail(evs))

RECURSIVE writeAll(_, _, _)
\* for (const event of events) res.write(`id: ${event.id}\ndata: ...`)
writeAll(o, c, events) ==
  IF events = <<>> THEN o ELSE writeAll(sendToClient(o, c, Head(events)), c, Tail(events))

\* the request arrives: the response joins conversationClients, then xRange is
\* awaited when the request carries Last-Event-ID, else xAdd of "connected"
LogConnect(c) ==
  /\ cl[c].pc = "none"
  /\ connections' = addConnection(connections, c)
  /\ cl' = [cl EXCEPT ![c].sock = "open",
                      ![c].lastEventId = lastEventIdOf(out[c]),
                      ![c].pc = IF lastEventIdOf(out[c]) = NoCursor
                                  THEN "log_hello" ELSE "log_replay"]
  /\ UNCHANGED <<now, redisUp, activeStreams, redisLog, logTTL, smDriver, cache,
                 mongoUp, conv, out, bcast, run>>

\* xRange answers: the entries after the cursor are written (a throw is caught
\* and logged); then the handlers are registered
LogReplay(c) ==
  /\ cl[c].pc = "log_replay"
  /\ out' = IF redisUp
              THEN writeAll(out, c, xRangeAfter(redisLog[ConvKey], cl[c].lastEventId))
              ELSE out
  /\ cl' = [onHandlers(cl, c) EXCEPT ![c].pc = "log_live", ![c].heartbeat = TRUE,
                                     ![c].replayed = TRUE]
  /\ UNCHANGED <<now, redisUp, activeStreams, redisLog, logTTL, smDriver, cache,
                 mongoUp, conv, connections, bcast, run>>

\* xAdd of "connected" answers and the event is written under its id, or it
\* throws and the event is written under Date.now(); then the handlers are
\* registered
LogHello(c) ==
  /\ cl[c].pc = "log_hello"
  /\ IF redisUp
       THEN /\ redisLog' = [redisLog EXCEPT ![ConvKey] =
                 Append(@, LogEntry(nextId(redisLog[ConvKey], now), ConnectedEvent))]
            /\ out' = sendToClient(out, c,
                 LogEntry(nextId(redisLog[ConvKey], now), ConnectedEvent))
       ELSE /\ out' = sendToClient(out, c, LogEntry(<<now, 0>>, ConnectedEvent))
            /\ UNCHANGED redisLog
  /\ cl' = [onHandlers(cl, c) EXCEPT ![c].pc = "log_live", ![c].heartbeat = TRUE,
                                     ![c].since = Len(bcast)]
  /\ UNCHANGED <<now, redisUp, activeStreams, logTTL, smDriver, cache,
                 mongoUp, conv, connections, bcast, run>>

\* req.on("close"): the heartbeat is cleared, the handlers are taken off and
\* the response leaves conversationClients
LogClose(c) ==
  /\ cl[c].pc = "log_live"
  /\ cl' = [offHandlers(cl, c) EXCEPT ![c].pc = "none", ![c].sock = "closed",
                                      ![c].heartbeat = FALSE]
  /\ connections' = removeConnection(connections, c)
  /\ UNCHANGED <<now, redisUp, activeStreams, redisLog, logTTL, smDriver, cache,
                 mongoUp, conv, out, bcast, run>>

\* POST /api/chat/:conversationId: checkDBConnection, the check of the
\* message, and the await of findOne
LogChatRequest(r, body) ==
  /\ run[r].pc = "idle"
  /\ run' = [run EXCEPT ![r] =
       IF ~mongoUp THEN [@ EXCEPT !.pc = "answered", !.response = "503"]
       ELSE IF trimBody(body) = "" THEN [@ EXCEPT !.pc = "answered", !.response = "400"]
       ELSE [@ EXCEPT !.pc = "log_find", !.userMessage = trimBody(body)]]
  /\ UNCHANGED <<now, redisUp, activeStreams, redisLog, logTTL, smDriver, cache,
                 mongoUp, conv, connections, cl, out, bcast>>

\* findOne answers (a new Conversation is built when none is found), the user
\* message is pushed and save is awaited; or findOne throws: 500
LogChatFind(r) ==
  /\ run[r].pc = "log_find"
  /\ run' = [run EXCEPT ![r] =
       IF mongoUp THEN [@ EXCEPT !.pc = "log_save", !.existing = conv.exists,
                                 !.city = conv.lastCity]
       ELSE [@ EXCEPT !.pc = "answered", !.response = "500"]]
  /\ UNCHANGED <<now, redisUp, activeStreams, redisLog, logTTL, smDriver, cache,
                 mongoUp, conv, connections, cl, out, bcast>>

\* conversation.save() of a document that may be new
saveDocument(cv) == IF cv.exists THEN cv ELSE NewConversation

\* save answers: the user message and the status "processing" are emitted,
\* the request is answered and the background run is scheduled; or save
\* throws: 500
LogChatSave(r) ==
  /\ run[r].pc = "log_save"
  /\ IF mongoUp
       THEN /\ conv' = pushMessage(saveDocument(conv),
                         Message(UserId(r), "user", <<run[r].userMessage>>, FALSE))
            /\ SetLogHub(emitAll(LogHub, <<UserMessageEvent(r, run[r].userMessage),
                                           StatusEvent("processing")>>))
            /\ run' = [run EXCEPT ![r].pc = "log_decision", ![r].response = "success"]
       ELSE /\ run' = [run EXCEPT ![r].pc = "answered", ![r].response = "500"]
            /\ UNCHANGED <<conv, redisLog, logTTL, out, bcast>>
  /\ UNCHANGED <<now, redisUp, activeStreams, smDriver, cache, mongoUp, connections, cl>>

\* the catch of the background run: the apology and done are emitted
logCatch(h, t) == emitAll(h, <<ApologyEvent(t), DoneEvent(ErrorId(t))>>)

\* the status "generating", messageId = Date.now(), and the await of llm.stream
logGenerating(r) ==
  /\ SetLogHub(emit(LogHub, StatusEvent("generating")))
  /\ run' = [run EXCEPT ![r].pc = "log_stream", ![r].botMsgId = now,
                        ![r].fullReply = <<>>, ![r].calls = <<>>]

\* the status "Fetching weather data..." and the await of getWeatherTool.invoke
logFetching(r, calls) ==
  /\ SetLogHub(emit(LogHub, StatusEvent("Fetching weather data...")))
  /\ run' = [run EXCEPT ![r].pc = "log_tool", ![r].calls = calls, ![r].city = "city"]

\* llmWithTools.invoke answers or throws
LogDecision(r, ok, calls) ==
  /\ run[r].pc = "log_decision"
  /\ IF ~ok
       THEN /\ SetLogHub(logCatch(LogHub, now))
            /\ run' = [run EXCEPT ![r].pc = "done", ![r].cause = "llm"]
       ELSE IF skipOtherTools(calls) = <<>> THEN logGenerating(r)
       ELSE logFetching(r, skipOtherTools(calls))
  /\ UNCHANGED <<now, redisUp, activeStreams, smDriver, cache, mongoUp, conv, connections, cl>>

\* getWeatherTool.invoke answers or throws; then the next get_weather call, or
\* the final stream
LogTool(r, ok) ==
  /\ run[r].pc = "log_tool"
  /\ IF ~ok
       THEN /\ SetLogHub(logCatch(LogHub, now))
            /\ run' = [run EXCEPT ![r].pc = "done", ![r].cause = "tool", ![r].calls = <<>>]
       ELSE IF skipOtherTools(Tail(run[r].calls)) = <<>> THEN logGenerating(r)
       ELSE logFetching(r, skipOtherTools(Tail(run[r].calls)))
  /\ UNCHANGED <<now, redisUp, activeStreams, smDriver, cache, mongoUp, conv, connections, cl>>

\* llm.stream answers or throws
LogStream(r, ok) ==
  /\ run[r].pc = "log_stream"
  /\ IF ok
       THEN /\ run' = [run EXCEPT ![r].pc = "log_chunk"]
            /\ UNCHANGED <<redisLog, logTTL, out, bcast>>
       ELSE /\ SetLogHub(logCatch(LogHub, now))
            /\ run' = [run EXCEPT ![r].pc = "done", ![r].cause = "llm"]
  /\ UNCHANGED <<now, redisUp, activeStreams, smDriver, cache, mongoUp, conv, connections, cl>>

\* the stream yields a fragment: it is added to fullReply and emitted as a token
LogChunk(r, f) ==
  /\ run[r].pc = "log_chunk"
  /\ run[r].nchunks < MaxFrags
  /\ SetLogHub(emit(LogHub, TokenBroadcast(<<f>>, BotId(run[r].botMsgId))))
  /\ run' = [run EXCEPT ![r].fullReply = @ \o <<f>>, ![r].nchunks = @ + 1]
  /\ UNCHANGED <<now, redisUp, activeStreams, smDriver, cache, mongoUp, conv, connections, cl>>

\* the stream throws
LogChunkThrows(r) ==
  /\ run[r].pc = "log_chunk"
  /\ SetLogHub(logCatch(LogHub, now))
  /\ run' = [run EXCEPT ![r].pc = "done", ![r].cause = "llm"]
  /\ UNCHANGED <<now, redisUp, activeStreams, smDriver, cache, mongoUp, conv, connections, cl>>

\* the stream is exhausted: the safety fallback, the pushes on the document,
\* and the await of save
LogStreamEnds(r) ==
  /\ run[r].pc = "log_chunk"
  /\ run' = [run EXCEPT ![r].pc = "log_final", ![r].fullReply = safetyFallback(@)]
  /\ UNCHANGED <<now, redisUp, activeStreams, redisLog, logTTL, smDriver, cache,
                 mongoUp, conv, connections, cl, out, bcast>>

\* the document as the final save leaves it: the bot message, the turn pair
\* on history, and lastCity
logFinalDocument(cv, id, text, userMessage, city) ==
  [saveDocument(cv) EXCEPT
     !.messages = Append(@, Message(id, "bot", text, FALSE)),
     !.history = @ \o <<[type |-> "human", text |-> userMessage],
                        [type |-> "ai", text |-> text]>>,
     !.lastCity = city]

\* save answers and done is emitted, or it throws
LogFinalSave(r) ==
  /\ run[r].pc = "log_final"
  /\ IF mongoUp
       THEN /\ conv' = logFinalDocument(conv, BotId(run[r].botMsgId), run[r].fullReply,
                                        run[r].userMessage, run[r].city)
            /\ SetLogHub(emit(LogHub, DoneEvent(BotId(run[r].botMsgId))))
            /\ run' = [run EXCEPT ![r].pc = "done"]
       ELSE /\ SetLogHub(logCatch(LogHub, now))
            /\ run' = [run EXCEPT ![r].pc = "done", ![r].cause = "store"]
            /\ UNCHANGED conv
  /\ UNCHANGED <<now, redisUp, activeStreams, smDriver, cache, mongoUp, connections, cl>>

LogRunStep(r) ==
  \/ \E body \in Bodies : LogChatRequest(r, body)
  \/ LogChatFind(r)
  \/ LogChatSave(r)
  \/ \E ok \in BOOLEAN, calls \in ToolCallLists : LogDecision(r, ok, calls)
  \/ \E ok \in BOOLEAN : LogTool(r, ok)
  \/ \E ok \in BOOLEAN : LogStream(r, ok)
  \/ \E f \in Frags : LogChunk(r, f)
  \/ LogChunkThrows(r)
  \/ LogStreamEnds(r)
  \/ LogFinalSave(r)

LogClientStep(c) ==
  \/ LogConnect(c)
  \/ LogReplay(c)
  \/ LogHello(c)
  \/ LogClose(c)

\* a connection that is opened once and stays
LogStayStep(c) ==
  \/ LogConnect(c)
  \/ LogHello(c)

\* one chat submission, a client that disconnects and reconnects, and one that
\* stays connected, with both stores up
NextLog ==
  \/ LogRunStep(1)
  \/ LogClientStep(1)
  \/ LogStayStep(2)

SpecLog == Init /\ [][NextLog]_vars

\* ------------------------- GET /api/conversations/:conversationId/resume
\* A client asks for the state of the stream of message id (-1: no messageId
\* in the query).  cl[c].sid is the message asked for, cl[c].msg the message
\* found in the document findOne returned, cl[c].reply the answer.
Reply(code, text, status, isStreaming) ==
  [code |-> code, text |-> text, status |-> status, isStreaming |-> isStreaming]

ErrorReply(code) == Reply(code, <<>>, "none", FALSE)

AskedIds == {-1} \cup (0..MaxRunClock)

\* res.json({ success: true, messageId, text: resumeResult.text, status: resumeResult.status, ... })
replyFromStream(res, m) == Reply(200, res.text, res.status, m.streaming)

\* the fallback to the message of the document
replyFromMessage(m) ==
  Reply(200, m.text, IF m.streaming THEN "active" ELSE "completed", m.streaming)

\* checkDBConnection, the check of messageId, and the await of findOne
ResumeGet(c, id) ==
  /\ cl[c].pc \in {"none", "rs_done"}
  /\ cl' = [cl EXCEPT ![c] =
       IF ~mongoUp THEN [@ EXCEPT !.pc = "rs_done", !.sid = id, !.reply = ErrorReply(503)]
       ELSE IF id = -1 THEN [@ EXCEPT !.pc = "rs_done", !.sid = id, !.reply = ErrorReply(400)]
       ELSE [@ EXCEPT !.pc = "rs_find", !.sid = id, !.reply = NoReply, !.msg = NoMessage]]
  /\ UNCHANGED <<now, redisUp, activeStreams, redisLog, logTTL, smDriver, cache,
                 mongoUp, conv, connections, out, bcast, run>>

\* findOne answers: 404 without the conversation or without the message in
\* it; else resumeStream, answered at once from activeStreams, or its xRange
\* is awaited; a throw of findOne: 500
ResumeFind(c) ==
  /\ cl[c].pc = "rs_find"
  /\ cl' = [cl EXCEPT ![c] =
       IF ~mongoUp THEN [@ EXCEPT !.pc = "rs_done", !.reply = ErrorReply(500)]
       ELSE IF ~hasMessage(conv, BotId(cl[c].sid))
         THEN [@ EXCEPT !.pc = "rs_done", !.reply = ErrorReply(404)]
       ELSE IF activeStreams[cl[c].sid].present
         THEN [@ EXCEPT !.pc = "rs_done",
                        !.msg = conv.messages[firstMatch(conv.messages, BotId(cl[c].sid))],
                        !.reply = replyFromStream(resumeFromMemory(activeStreams, cl[c].sid),
                                    conv.messages[firstMatch(conv.messages, BotId(cl[c].sid))])]
       ELSE [@ EXCEPT !.pc = "rs_xrange",
                      !.msg = conv.messages[firstMatch(conv.messages, BotId(cl[c].sid))]]]
  /\ UNCHANGED <<now, redisUp, activeStreams, redisLog, logTTL, smDriver, cache,
                 mongoUp, conv, connections, out, bcast, run>>

\* xRange of resumeStream answers, or throws and found: false is returned;
\* without a result the message of the document is the answer
ResumeRead(c) ==
  /\ cl[c].pc = "rs_xrange"
  /\ cl' = [cl EXCEPT ![c].pc = "rs_done",
                      ![c].reply =
                        IF redisUp /\ resumeFromLog(xRange(redisLog, cl[c].sid)).found
                          THEN replyFromStream(resumeFromLog(xRange(redisLog, cl[c].sid)),
                                               cl[c].msg)
                          ELSE replyFromMessage(cl[c].msg)]
  /\ UNCHANGED <<now, redisUp, activeStreams, redisLog, logTTL, smDriver, cache,
                 mongoUp, conv, connections, out, bcast, run>>

ResumeStep(c) ==
  \/ \E id \in AskedIds : ResumeGet(c, id)
  \/ ResumeFind(c)
  \/ ResumeRead(c)

\* one chat submission and a client that polls the resume endpoint, with both
\* stores up
NextResume ==
  \/ CreateConversation
  \/ SteadyStep(1)
  \/ AppTick
  \/ ResumeStep(1)

SpecResume == Init /\ [][NextResume]_vars

\* ------------------------------------------------------- useStreamManager
\* The hook of connection c: cl[c].hook.es is the state of the EventSource in
\* eventSourceRef ("none": closed and null), reconnectTimeout the delay of the
\* pending timer (0: none), reconnectAttempts the ref of that name; errors
\* counts the messages of type 'error' handed to onMessage, sinceOpen the
\* reconnects made since the last open.
min(a, b) == IF a < b THEN a ELSE b

\* the delay, had the ceiling of 30 s been left out
reconnectDelayUncapped(n) == baseReconnectDelay * 2^n

\* Math.min(baseReconnectDelay * Math.pow(2, reconnectAttempts), 30000)
reconnectDelay(n) == min(baseReconnectDelay * 2^n, 30000)

\* cleanup(): the EventSource is closed, the timer cleared
cleanupHook(h) == [h EXCEPT !.es = "none", !.reconnectTimeout = 0]

\* connect(): cleanup, then a new EventSource
connectHook(h) == [cleanupHook(h) EXCEPT !.es = "connecting"]

\* the effect runs: connect()
HookMount(c) ==
  /\ ~cl[c].hook.mounted
  /\ cl' = [cl EXCEPT ![c].hook = [connectHook(@) EXCEPT !.mounted = TRUE]]
  /\ UNCHANGED <<now, redisUp, activeStreams, redisLog, logTTL, smDriver, cache,
                 mongoUp, conv, connections, out, bcast, run>>

\* eventSource.onopen
HookOpen(c) ==
  /\ cl[c].hook.es = "connecting"
  /\ cl' = [cl EXCEPT ![c].hook.es = "open", ![c].hook.reconnectAttempts = 0,
                      ![c].hook.sinceOpen = 0]
  /\ UNCHANGED <<now, redisUp, activeStreams, redisLog, logTTL, smDriver, cache,
                 mongoUp, conv, connections, out, bcast, run>>

\* eventSource.onerror: cleanup, then the timer of the next attempt, or the
\* message of type 'error' once the attempts are used up
HookError(c) ==
  /\ cl[c].hook.es \in {"connecting", "open"}
  /\ cl' = [cl EXCEPT ![c].hook =
       IF cl[c].hook.reconnectAttempts < maxReconnectAttempts
         THEN [cleanupHook(@) EXCEPT
                 !.reconnectTimeout = reconnectDelay(cl[c].hook.reconnectAttempts)]
         ELSE [cleanupHook(@) EXCEPT !.errors = @ + 1]]
  /\ UNCHANGED <<now, redisUp, activeStreams, redisLog, logTTL, smDriver, cache,
                 mongoUp, conv, connections, out, bcast, run>>

\* the timer fires: reconnectAttempts++, connect()
HookTimer(c) ==
  /\ cl[c].hook.reconnectTimeout # 0
  /\ cl' = [cl EXCEPT ![c].hook =
       [connectHook(@) EXCEPT !.reconnectAttempts = @ + 1, !.sinceOpen = @ + 1]]
  /\ UNCHANGED <<now, redisUp, activeStreams, redisLog, logTTL, smDriver, cache,
                 mongoUp, conv, connections, out, bcast, run>>

HookStep(c) ==
  \/ HookMount(c)
  \/ HookOpen(c)
  \/ HookError(c)
  \/ HookTimer(c)

NextHook == \E c \in Clients : HookStep(c)

SpecHook == Init /\ [][NextHook]_vars

\* ------------------------------------------- ChatCard, eventSource.onmessage
\* cl[c].card.messages is the component's message list.  Ids are the strings
\* the server makes (`user-...`, `bot-...`, `error-...`) or numbers
\* (<<"num", n>>, as Date.now() gives them).
NumId(n) == <<"num", n>>

\* data.message.type of a `message` event
messageTypeOf(ev) == IF ev.messageId[1] = "error" THEN "bot" ELSE "user"

\* Math.abs((m.id || 0) - (data.message.id || 0)) < 2000: NaN, hence false,
\* unless both ids are numbers
idsClose(a, b) ==
  /\ a[1] = "num"
  /\ b[1] = "num"
  /\ (IF a[2] < b[2] THEN b[2] - a[2] ELSE a[2] - b[2]) < 2000

CardEntry(id, type, text) == [id |-> id, type |-> type, text |-> text]

\* the updater of a `message` event
onMessageEvent(prev, ev) ==
  IF \E i \in 1..Len(prev) :
       /\ prev[i].text = ev.content
       /\ prev[i].type = messageTypeOf(ev)
       /\ idsClose(prev[i].id, ev.messageId)
    THEN prev
    ELSE Append(prev, CardEntry(ev.messageId, messageTypeOf(ev), ev.content))

\* the updater of a `token` event
onTokenEvent(prev, ev) ==
  IF prev # <<>> /\ prev[Len(prev)].type = "bot" /\ prev[Len(prev)].id = ev.messageId
    THEN [prev EXCEPT ![Len(prev)].text = @ \o ev.content]
    ELSE Append(prev, CardEntry(ev.messageId, "bot", ev.content))

CardEvents ==
  {UserMessageEvent(1, "hi"), Event("message", <<"hi">>, NumId(0), <<>>), ApologyEvent(0),
   StatusEvent("processing"), StatusEvent("generating"),
   StatusEvent("Fetching weather data..."),
   TokenBroadcast(<<"a">>, BotId(0)), TokenBroadcast(<<"a">>, BotId(1)),
   DoneEvent(BotId(0)), ConnectedEvent}

\* eventSource.onmessage
CardEvent(c, ev) ==
  /\ cl[c].card.seen < MaxCardEvents
  /\ cl' = [cl EXCEPT ![c].card =
       [seen |-> @.seen + 1,
        messages |-> IF ev.type = "message" THEN onMessageEvent(@.messages, ev)
                     ELSE IF ev.type = "token" THEN onTokenEvent(@.messages, ev)
                     ELSE @.messages,
        isTyping |-> IF ev.type = "status"
                       THEN (IF ev.content[1] \in {"processing", "generating"}
                               THEN TRUE ELSE @.isTyping)
                     ELSE IF ev.type \in {"token", "done"} THEN FALSE
                     ELSE @.isTyping]]
  /\ UNCHANGED <<now, redisUp, activeStreams, redisLog, logTTL, smDriver, cache,
                 mongoUp, conv, connections, out, bcast, run>>

NextCard == \E ev \in CardEvents : CardEvent(1, ev)

SpecCard == Init /\ [][NextCard]_vars

\* ------------------------------------------------ GET /api/conversations/:id
\* cl[c].reply.code is the status of the answer, cl[c].served the messages in
\* it; reply.isStreaming records that the answer came from the cache.
\* checkDBConnection, then the cache: a hit is answered at once, a miss
\* deletes the entry and awaits findOne
GetConversation(c) ==
  /\ cl[c].pc = "none"
  /\ IF ~mongoUp
       THEN /\ cl' = [cl EXCEPT ![c].pc = "gc_done", ![c].reply = ErrorReply(503),
                                ![c].served = <<>>]
            /\ UNCHANGED cache
       ELSE IF cacheHit(cache, now)
       THEN /\ cl' = [cl EXCEPT ![c].pc = "gc_done",
                                ![c].reply = Reply(200, <<>>, "none", TRUE),
                                ![c].served = cache.data.messages]
            /\ UNCHANGED cache
       ELSE /\ cl' = [cl EXCEPT ![c].pc = "gc_find", ![c].reply = NoReply,
                                ![c].served = <<>>]
            /\ cache' = invalidateCache(cache)
  /\ UNCHANGED <<now, redisUp, activeStreams, redisLog, logTTL, smDriver,
                 mongoUp, conv, connections, out, bcast, run>>

\* findOne answers: 404 without the conversation, else the document is cached
\* and served; or it throws: 500
GetConversationFind(c) ==
  /\ cl[c].pc = "gc_find"
  /\ IF ~mongoUp
       THEN /\ cl' = [cl EXCEPT ![c].pc = "gc_done", ![c].reply = ErrorReply(500)]
            /\ UNCHANGED cache
       ELSE IF ~conv.exists
       THEN /\ cl' = [cl EXCEPT ![c].pc = "gc_done", ![c].reply = ErrorReply(404)]
            /\ UNCHANGED cache
       ELSE /\ cl' = [cl EXCEPT ![c].pc = "gc_done",
                                ![c].reply = Reply(200, <<>>, "none", FALSE),
                                ![c].served = conv.messages]
            /\ cache' = setCachedConversation(conv, now)
  /\ UNCHANGED <<now, redisUp, activeStreams, redisLog, logTTL, smDriver,
                 mongoUp, conv, connections, out, bcast, run>>

\* the client takes the answer
GetReceived(c) ==
  /\ cl[c].pc = "gc_done"
  /\ cl' = [cl EXCEPT ![c].pc = "none", ![c].reply = NoReply, ![c].served = <<>>]
  /\ UNCHANGED <<now, redisUp, activeStreams, redisLog, logTTL, smDriver, cache,
                 mongoUp, conv, connections, out, bcast, run>>

GetStep(c) ==
  \/ GetConversation(c)
  \/ GetConversationFind(c)
  \/ GetReceived(c)

\* a chat submission whose stream may throw between fragments
ThrowingStep(r) ==
  \/ PlainStep(r)
  \/ ChunkThrows(r)

CacheTick ==
  /\ Tick(CACHE_TTL)
  /\ UNCHANGED <<redisUp, activeStreams, redisLog, logTTL, smDriver, appVars>>

\* one chat submission and a client that reads the conversation, with both
\* stores up
NextCache ==
  \/ CreateConversation
  \/ ThrowingStep(1)
  \/ GetStep(1)
  \/ CacheTick

SpecCache == Init /\ [][NextCache]_vars

\* ------------------------------------------------------------------ claims
\* ------------------------------------------------- what the claims speak of
RECURSIVE tokensOf(_, _)
\* the concatenation of the contents of the token events for a message id
tokensOf(events, id) ==
  IF events = <<>> THEN <<>>
  ELSE (IF Head(events).type = "token" /\ Head(events).messageId = id
          THEN Head(events).content ELSE <<>>) \o tokensOf(Tail(events), id)

\* the events that reach a connection through sseManager.broadcast
IsBroadcastEvent(e) == e.type \in {"message", "status", "token", "done"}

\* the events handed to broadcast since the handler of connection c started
broadcastSince(c) == SubSeq(bcast, cl[c].joinedAt + 1, Len(bcast))

IsPrefix(s, t) == Len(s) <= Len(t) /\ SubSeq(t, 1, Len(s)) = s

RunEnded(r) == run[r].pc \in {"done", "errored", "returned", "crashed"}

\* the run holds a stream key it has created and not yet completed
UsesStream(r) ==
  run[r].pc \in {"create_setex", "llm_stream", "next_chunk", "append_xadd",
                 "append_expire", "persist_find", "persist_write", "complete_xadd"}

HasResume(c) == \E i \in 1..Len(out[c]) : out[c][i].type = "resume"
resumeIndex(c) == CHOOSE i \in 1..Len(out[c]) : out[c][i].type = "resume"

\* C2: a connection whose handler has started, and whose socket takes writes,
\* is in the conversation's set and has been written every event handed to
\* broadcast since the handler started, in order: none is dropped while the
\* handler awaits the reconnect state.
C2_SubscribedBeforeAwait ==
  \A c \in Clients :
    (cl[c].pc # "none" /\ cl[c].sock = "open") =>
      /\ c \in connections
      /\ SelectSeq(out[c], IsBroadcastEvent) = broadcastSince(c)

C2_Witness ==
  \E c \in Clients :
    /\ cl[c].pc = "sync_find"
    /\ cl[c].sock = "open"
    /\ \E i \in 1..Len(out[c]) : out[c][i].type = "token"

\* C3 as stated: once the run is done, on a connection that was sent a resume
\* event and takes writes, currentText followed by the tokens written after the
\* resume event is exactly the text generated for the message.
C3_AsStated ==
  \A c \in Clients, r \in Runs :
    (/\ cl[c].sock = "open"
     /\ HasResume(c)
     /\ run[r].pc = "done"
     /\ out[c][resumeIndex(c)].messageId = BotId(run[r].botMsgId)) =>
      out[c][resumeIndex(c)].content
          \o tokensOf(SubSeq(out[c], resumeIndex(c) + 1, Len(out[c])), BotId(run[r].botMsgId))
        = tokensOf(bcast, BotId(run[r].botMsgId))

\* C4 as stated (for a run that has stopped): every submission answered with
\* success has had `done` broadcast for it.
C4_AsStated ==
  \A r \in Runs :
    (run[r].response = "success" /\ RunEnded(r)) =>
      \E i \in 1..Len(bcast) : bcast[i] = DoneEvent(BotId(run[r].botMsgId))

\* C5 as stated: a run that stopped after the generation or the tool threw has
\* broadcast a bot message with the apology text and then `done` with its id.
C5_AsStated ==
  \A r \in Runs :
    (run[r].cause \in {"llm", "tool"} /\ RunEnded(r)) =>
      \E i \in 1..(Len(bcast) - 1) :
        /\ bcast[i].type = "message"
        /\ bcast[i].messageId[1] = "error"
        /\ bcast[i].content # <<>>
        /\ bcast[i + 1] = DoneEvent(BotId(run[r].botMsgId))

\* C6 as stated: when a run is done after broadcasting a token, the stored bot
\* message's text is the concatenation of the tokens broadcast for its id and
\* its streaming flag is false.
C6_AsStated ==
  \A r \in Runs :
    (run[r].pc = "done" /\ tokensOf(bcast, BotId(run[r].botMsgId)) # <<>>) =>
      \E i \in 1..Len(conv.messages) :
        conv.messages[i] = Message(BotId(run[r].botMsgId), "bot",
                                   tokensOf(bcast, BotId(run[r].botMsgId)), FALSE)

\* C7 as stated: when a run is done and the stream produced no fragment, the
\* store holds the bot message with the fallback text and streaming=false, the
\* turn pair is at the end of history and the session is out of the registry.
C7_AsStated ==
  \A r \in Runs :
    (run[r].pc = "done" /\ run[r].nchunks = 0) =>
      /\ \E i \in 1..Len(conv.messages) :
           conv.messages[i] = Message(BotId(run[r].botMsgId), "bot", FALLBACK, FALSE)
      /\ Len(conv.history) >= 2
      /\ conv.history[Len(conv.history)] = [type |-> "ai", text |-> FALLBACK]
      /\ ~activeStreams[run[r].streamId].present

\* C8 as stated: once a run has stopped, the store holds no message of the run
\* with streaming=true.
C8_AsStated ==
  \A r \in Runs :
    RunEnded(r) =>
      ~\E i \in 1..Len(conv.messages) :
          conv.messages[i].id = BotId(run[r].botMsgId) /\ conv.messages[i].streaming

\* C9 as stated: every step that leaves a bot message in the store leaves its
\* text an extension of what it was.
C9_TextOnlyGrows ==
  \A i \in 1..Len(conv.messages), j \in 1..Len(conv'.messages) :
    (conv.messages[i].type = "bot" /\ conv'.messages[j].id = conv.messages[i].id) =>
      IsPrefix(conv.messages[i].text, conv'.messages[j].text)

\* C9 as stated: the text of a stored bot message only ever grows by
\* extension, over every step of the program.
C9_AsStated == [][C9_TextOnlyGrows]_vars

\* C10 as stated: no two runs hold the same stream key at once.
C10_AsStated ==
  \A r1 \in Runs, r2 \in Runs :
    (r1 # r2 /\ UsesStream(r1) /\ UsesStream(r2)) => run[r1].botMsgId # run[r2].botMsgId

SMResumedAfterComplete ==
  /\ smh.result.valid
  /\ smh.result.afterComplete
  /\ smh.created[smh.result.sid] = 1

SMResultIsFullText ==
  /\ smh.result.res.found
  /\ smh.result.res.status = "completed"
  /\ smh.result.res.text = smh.appended[smh.result.sid]

rank(e) ==
  IF e.type = "status" /\ e.content = <<"processing">> THEN 1
  ELSE IF e.type = "status" /\ e.content = <<"Fetching weather data...">> THEN 2
  ELSE IF e.type = "status" /\ e.content = <<"generating">> THEN 3
  ELSE IF e.type = "token" THEN 4
  ELSE 5

IsRunEvent(e) == e.type \in {"status", "token", "done"}
IsToken(e) == e.type = "token"
IsFetching(e) == e = StatusEvent("Fetching weather data...")

\* the fragments the generation has yielded so far, in order
generated(r) ==
  IF run[r].fullReply = FALLBACK THEN [i \in 1..run[r].nchunks |-> " "]
  ELSE run[r].fullReply

tokenEvents(r) ==
  [i \in 1..Len(generated(r)) |-> TokenBroadcast(<<generated(r)[i]>>, BotId(run[r].botMsgId))]

\* the connection was opened before anything was broadcast and still takes writes
ConnectedThroughout(c) ==
  /\ cl[c].pc # "none"
  /\ cl[c].joinedAt = 0
  /\ cl[c].sock = "open"

TookToolPath == \E i \in 1..Len(bcast) : IsFetching(bcast[i])

\* C11: a subscriber connected for the whole of a run has received the run's
\* events in the order processing, Fetching weather data..., generating, the
\* tokens, done; the tokens are the fragments in generation order; and once a
\* tool-path run is done it has received exactly that sequence.
C11_EventOrder ==
  \A c \in Clients :
    ConnectedThroughout(c) =>
      LET evs == SelectSeq(out[c], IsRunEvent)
      IN  /\ \A i \in 1..Len(evs), j \in 1..Len(evs) : i < j => rank(evs[i]) <= rank(evs[j])
          /\ IsPrefix(SelectSeq(evs, IsToken), tokenEvents(1))
          /\ (run[1].pc = "done" /\ TookToolPath) =>
                evs = <<StatusEvent("processing")>> \o SelectSeq(bcast, IsFetching)
                        \o <<StatusEvent("generating")>> \o tokenEvents(1)
                        \o <<DoneEvent(BotId(run[1].botMsgId))>>

C11_Witness ==
  /\ ConnectedThroughout(1)
  /\ run[1].pc = "done"
  /\ TookToolPath
  /\ run[1].nchunks = 2
  /\ Len(SelectSeq(out[1], IsToken)) = 2

\* ------------------------------------------------------------- C12, C13
\* the events handed to broadcast in the step
newlyBroadcast == SubSeq(bcast', Len(bcast) + 1, Len(bcast'))

BroadcastDelivers ==
  Len(bcast') > Len(bcast) =>
    /\ \A c \in connections : cl[c].sock = "open" => out'[c] = out[c] \o newlyBroadcast
    /\ \A r \in Runs : run'[r].pc # "catch_pull"

\* C12: a step that broadcasts writes the event to every connection of the
\* set whose write succeeds, whatever the other connections of the set do
\* with theirs, and the broadcasting run goes on, not into its catch.
C12_DeliversDespiteFailures == [][BroadcastDelivers]_vars

\* the index in bcast of the broadcast whose write to connection c threw
evictedAt(c) == cl[c].joinedAt + Len(SelectSeq(out[c], IsBroadcastEvent)) + 1

\* the write to connection c threw during a broadcast, which removed it
EvictedByBroadcast(c) ==
  /\ cl[c].pc # "none"
  /\ cl[c].sock = "broken"
  /\ c \notin connections
  /\ evictedAt(c) <= Len(bcast)

C12_Witness ==
  \E c1 \in Clients, c2 \in Clients :
    /\ c1 < c2
    /\ EvictedByBroadcast(c1)
    /\ cl[c2].pc # "none"
    /\ cl[c2].sock = "open"
    /\ cl[c2].joinedAt < evictedAt(c1)
    /\ out[c2][evictedAt(c1) - cl[c2].joinedAt + 1] = bcast[evictedAt(c1)]

BroadcastEvicts ==
  Len(bcast') > Len(bcast) => connections' = {c \in connections : cl[c].sock # "broken"}

\* C13: after a step that broadcasts, the set holds exactly the connections
\* it held whose write did not throw.
C13_FailedOutOthersStay == [][BroadcastEvicts]_vars

C13_Witness ==
  \E c1 \in Clients, c2 \in Clients :
    /\ EvictedByBroadcast(c1)
    /\ evictedAt(c1) = Len(bcast)
    /\ run[1].pc = "done"
    /\ c2 \in connections
    /\ cl[c2].sock = "open"

\* ------------------------------------------------------------------- C14
\* the write of a heartbeat frame to connection c threw: the timer is stopped
\* though the peer has not closed the connection
HeartbeatFailed(c) ==
  /\ cl[c].pc # "none"
  /\ cl[c].sock = "broken"
  /\ ~cl[c].heartbeat

\* C14 as stated: a connection whose heartbeat write failed is out of the
\* conversation's set.
C14_AsStated ==
  \A c \in Clients : HeartbeatFailed(c) => c \notin connections

\* ------------------------------------------------------------- C15, C16
Unsubscribed(c) == c \notin connections /\ ~cl[c].heartbeat

\* C15 as stated: a connection the peer has closed is in the end out of the
\* conversation's set, its heartbeat timer stopped.
C15_AsStated ==
  \A c \in Clients : (cl[c].sock = "closed") ~> Unsubscribed(c)

\* the run has appended a fragment and not yet completed its stream
Streaming(r) == UsesStream(r) /\ run[r].nchunks >= 1

SomeClosed == \E c \in Clients : cl[c].sock = "closed"

\* the run is done, its message stored with the generated text, not streaming
DoneAndSaved(r) ==
  /\ run[r].pc = "done"
  /\ \E i \in 1..Len(conv.messages) :
       conv.messages[i] = Message(BotId(run[r].botMsgId), "bot", generated(r), FALSE)

\* C16: a run that is streaming fragments when a connection has been closed,
\* or when the set has no connection left, goes on to done with its message
\* stored, holding every fragment, streaming=false.
C16_RunOutlivesSubscribers ==
  \A r \in Runs :
    (Streaming(r) /\ (SomeClosed \/ connections = {})) ~> DoneAndSaved(r)

C16_Witness ==
  /\ DoneAndSaved(1)
  /\ run[1].nchunks = 2
  /\ cl[1].sock = "closed"
  /\ connections = {}
  /\ Len(SelectSeq(out[1], IsToken)) = 1

\* ------------------------------------------------------------------- C17
\* the connection was opened without Last-Event-ID and still takes writes
OpenedFresh(c) ==
  /\ cl[c].pc # "none"
  /\ cl[c].sock = "open"
  /\ \E i \in 1..Len(out[c]) : out[c][i].type = "connected"

IsTokenOrDone(e) == e.type \in {"token", "done"}

\* what connection c2 was written by broadcast from the moment c joined
sharedWith(c2, c) ==
  LET evs == SelectSeq(out[c2], IsBroadcastEvent)
  IN  SubSeq(evs, cl[c].joinedAt - cl[c2].joinedAt + 1, Len(evs))

\* C17: a connection opened without a cursor has been written one `connected`
\* event, first, and after it exactly the events broadcast since it joined:
\* no sync, no resume, no token from before; its token and done events are
\* those written since then to every connection that was already there.
C17_FreshConnection ==
  \A c \in Clients :
    OpenedFresh(c) =>
      /\ out[c] = <<ConnectedEvent>> \o broadcastSince(c)
      /\ \A c2 \in Clients \ {c} :
           (cl[c2].pc # "none" /\ cl[c2].sock = "open" /\ cl[c2].joinedAt <= cl[c].joinedAt) =>
             SelectSeq(out[c], IsTokenOrDone) = SelectSeq(sharedWith(c2, c), IsTokenOrDone)

C17_Witness ==
  \E c \in Clients, c2 \in Clients :
    /\ OpenedFresh(c)
    /\ OpenedFresh(c2)
    /\ cl[c2].joinedAt = 0
    /\ run[1].pc = "done"
    /\ Len(SelectSeq(out[c2], IsToken)) = 2
    /\ Len(SelectSeq(out[c], IsToken)) = 1
    /\ out[c][Len(out[c])].type = "done"

\* ------------------------------------------------------------------- C18
\* the handler of a connection opened with Last-Event-ID gets past its read
\* of the conversation
SyncReadDone(c) == cl[c].pc = "sync_find" /\ cl'[c].pc # "sync_find"

SyncSent(c) ==
  /\ Len(out'[c]) > Len(out[c])
  /\ out'[c][Len(out[c]) + 1] = SyncEvent(conv.messages)
  /\ \A i \in 1..Len(out[c]) : out[c][i].type # "sync"
  /\ \A i \in (Len(out[c]) + 2)..Len(out'[c]) : out'[c][i].type # "sync"

\* C18 as stated, for a conversation the store holds: the step in which the
\* handler of a connection opened with a cursor has read the conversation
\* writes to it one sync event, its only one, listing the messages of the
\* store as they are at that moment.
C18_AsStated ==
  [][\A c \in Clients :
       (SyncReadDone(c) /\ cl[c].sock = "open" /\ conv.exists) => SyncSent(c)]_vars

\* ------------------------------------------------------------------- C19
\* the handler of a connection opened with Last-Event-ID has finished
Reconnected(c) ==
  /\ cl[c].pc = "open"
  /\ cl[c].sock = "open"
  /\ out[c] # <<>>
  /\ out[c][1].type = "sync"

\* the session of message m is in the registry, active
SessionActive(m) ==
  /\ m.id[1] = "bot"
  /\ activeStreams[streamIdOf(m)].present
  /\ activeStreams[streamIdOf(m)].status = "active"

\* C19 as stated: once the handler of a reconnecting connection has finished,
\* the connection has been written a `resume` event if the synced state holds
\* a message with streaming=true whose session is active, and only for a
\* message of the synced state with streaming=true.
C19_AsStated ==
  \A c \in Clients :
    Reconnected(c) =>
      LET synced == out[c][1].messages
      IN  /\ (\E k \in 1..Len(synced) : synced[k].streaming /\ SessionActive(synced[k]))
                => HasResume(c)
          /\ HasResume(c) =>
                \E k \in 1..Len(synced) :
                  synced[k].streaming /\ synced[k].id = out[c][resumeIndex(c)].messageId

\* ------------------------------------------------------------------- C20
HasSync(c) == \E i \in 1..Len(out[c]) : out[c][i].type = "sync"
syncIndex(c) == CHOOSE i \in 1..Len(out[c]) : out[c][i].type = "sync"

AppendProceeds == sm.pc = "idle" /\ sm'.pc = "append_xadd"

\* appendToStream throws `Stream ... not found`
AppendSignals == ~smh.notFound /\ smh'.notFound

AppendOnUnknownKey ==
  /\ AppendProceeds => activeStreams[sm'.sid].present
  /\ AppendSignals =>
       /\ \A sid \in SMKeys : ~activeStreams[sid].present
       /\ activeStreams' = activeStreams
       /\ redisLog' = redisLog
       /\ logTTL' = logTTL
       /\ sm' = sm

\* C21: appendToStream goes on to write only for a key whose session is in
\* the registry; for a key without one it throws, and the step leaves the
\* registry and the log as they were.
C21_AppendUnknownSignals == [][AppendOnUnknownKey]_vars

C21_Witness ==
  /\ smh.notFound
  /\ smh.completed[0]
  /\ ~activeStreams[0].present
  /\ redisLog[0] # <<>>
  /\ redisLog[0][Len(redisLog[0])] = CompleteEvent

\* ------------------------------------------------------------------- C22
\* the run is inside a call of appendToStream
InAppend(r) == run[r].pc \in {"append_xadd", "append_expire"}

\* C22 as stated: every fragment handed to appendToStream is broadcast as a
\* token once the call is over, whether Redis answered or not, and a run that
\* has produced a fragment does not end in its catch because Redis failed.
C22_AsStated ==
  \A r \in Runs :
    /\ ~InAppend(r) =>
         Len(tokensOf(bcast, BotId(run[r].botMsgId))) = run[r].nchunks
    /\ (run[r].pc \in {"catch_pull", "errored", "crashed"} /\ run[r].nchunks >= 1) =>
         run[r].cause # "log"

\* ------------------------------------------------------------------- C23
\* the run left its token loop through a throw of the store: it is in its
\* catch, a fragment produced, its session still active in the registry
StoppedMidStreamByStore(r) ==
  /\ run[r].pc \in {"catch_pull", "errored", "crashed"}
  /\ run[r].cause = "store"
  /\ run[r].nchunks >= 1
  /\ run[r].streamId \in StreamIds
  /\ activeStreams[run[r].streamId].present
  /\ activeStreams[run[r].streamId].status = "active"

\* C23 as stated: a failure of the store during the per-fragment persistence
\* does not take the run out of its token loop.
C23_AsStated == \A r \in Runs : ~StoppedMidStreamByStore(r)

\* ------------------------------------------------------------- C24, C25
\* nothing was done for submission r: no message of it is in the store, no
\* event of it was broadcast, no background run was started for it
NothingDoneFor(r) ==
  /\ run[r].pc = "answered"
  /\ run[r].botMsgId = -1
  /\ \A i \in 1..Len(conv.messages) : conv.messages[i].id # UserId(r)
  /\ \A i \in 1..Len(bcast) : bcast[i].messageId # UserId(r)
  /\ (\A r2 \in Runs \ {r} : run[r2].pc = "idle") => bcast = <<>> /\ conv.messages = <<>>

\* the request of submission r reaches the route
Submitted(r) == run[r].pc = "idle" /\ run'[r].pc # "idle"

\* C24: a chat submitted while mongoose is not connected is answered 503, and
\* for a submission answered 503 nothing was written, broadcast or started.
C24_Unavailable503 ==
  /\ [][\A r \in Runs : (Submitted(r) /\ ~mongoUp) => run'[r].response = "503"]_vars
  /\ [](\A r \in Runs : run[r].response = "503" => NothingDoneFor(r))

C24_Witness ==
  /\ run[1].response = "503"
  /\ conv.exists
  /\ 1 \in connections

\* C25: a submission goes past the validation only with a message that is not
\* empty after trimming; the others are answered with an error, and for a
\* submission answered 400 nothing was written, broadcast or started.
C25_BlankRejected ==
  /\ [][\A r \in Runs : Submitted(r) =>
           \/ run'[r].response \in {"400", "503"}
           \/ run'[r].userMessage \notin {"", " "}]_vars
  /\ [](\A r \in Runs : run[r].response = "400" => NothingDoneFor(r))

C25_Witness ==
  /\ run[1].response = "400"
  /\ mongoUp
  /\ conv.exists
  /\ 1 \in connections

\* ------------------------------------------------------------------- C26
\* C26 as stated: a submission answered with success has its user message in
\* the store and broadcast, ahead of every event of its background run.
C26_AsStated ==
  \A r \in Runs :
    run[r].response = "success" =>
      /\ hasMessage(conv, UserId(r))
      /\ \E i \in 1..Len(bcast) :
           /\ bcast[i] = UserMessageEvent(r, run[r].userMessage)
           /\ \A j \in 1..(i - 1) : bcast[j].messageId # BotId(run[r].botMsgId)

\* ------------------------------------------------------------------- C27
\* resumeStream has answered from the log for a key created once and never
\* completed: cleanup had removed its session from the registry
SMResumedAfterSweep ==
  /\ smh.result.valid
  /\ ~smh.result.afterComplete
  /\ smh.created[smh.result.sid] = 1
  /\ ~(smh.result.res.found /\ ~smh.result.res.fromRedis)

\* C27 as stated, over the calls whose Redis commands were all answered:
\* resumeStream on a swept session, its log not expired, returns found with
\* the concatenation of the fragments appended.
C27_AsStated ==
  (/\ SMResumedAfterSweep
   /\ ~smh.faulted[smh.result.sid]
   /\ ~smh.result.readFailed
   /\ ~smh.result.logGone) =>
     /\ smh.result.res.found
     /\ smh.result.res.text = smh.appended[smh.result.sid]

\* ------------------------------------------------------------------- C28
\* when the session of key sid last received a fragment, or was started
lastActivity(sid) ==
  IF smh.lastAppend[sid] > activeStreams[sid].startedAt
    THEN smh.lastAppend[sid] ELSE activeStreams[sid].startedAt

\* the step is a sweep that removes the session of key sid
SweptInStep(sid) ==
  /\ activeStreams[sid].present
  /\ ~activeStreams'[sid].present
  /\ sm' = sm

\* C28 as stated: the sweep removes a session only when its last append is
\* longer ago than the timeout.
C28_AsStated ==
  [][\A sid \in SMKeys : SweptInStep(sid) => now - lastActivity(sid) > STREAM_TIMEOUT]_vars

\* ------------------------------------------------------------------- C29
\* C29 as stated: a run that awaits a tool decision leaves the tool loop in
\* the end, with a reply or an error.
C29_AsStated ==
  \A r \in Runs : (run[r].pc = "loop_decision") ~> (run[r].pc = "answered")


\* -------------------------------------------------------------------- C30
\* the events a connection was written, without their ids and without "connected"
semanticEvents(o) ==
  LET kept == SelectSeq(o, LAMBDA e : e.data.type # "connected")
  IN  [i \in 1..Len(kept) |-> kept[i].data]

\* what a client connected since c first registered has been written
emittedSince(c) == SubSeq(bcast, cl[c].since + 1, Len(bcast))

\* C30 as stated: in the log-backed stream handler, a client that reconnected
\* with a cursor and is registered again has been written, over its
\* connections, exactly the events emitted since it first registered, each
\* once and in order: no gap and no duplicate relative to a client connected
\* all along, whatever the number of subscribers while the events were emitted.
C30_AsStated ==
  \A c \in Clients :
    (cl[c].pc = "log_live" /\ cl[c].replayed)
      => semanticEvents(out[c]) = emittedSince(c)


\* -------------------------------------------------------------------- C31
\* the close listener of connection c runs in the step
ClosesNow(c) == cl[c].sock # "closed" /\ cl'[c].sock = "closed" /\ cl[c].listening

SecondRemovalLeavesHub ==
  \A c \in Clients : (ClosesNow(c) /\ c \notin connections) => hubVars' = hubVars

RemovalIdempotent ==
  \A c \in Clients :
    /\ removeConnection(removeConnection(connections, c), c) = removeConnection(connections, c)
    /\ c \notin connections => removeConnection(connections, c) = connections

\* C31: removeConnection for a connection that is not in the set (never added,
\* removed before, or evicted by a failed broadcast) leaves the set as it is,
\* and the close of an evicted connection leaves the hub unchanged.
C31_RemoveIdempotent == [][SecondRemovalLeavesHub]_vars /\ []RemovalIdempotent

\* connection c was evicted by a broadcast whose write threw, and closed after
C31_Witness ==
  \E c \in Clients :
    /\ cl[c].sock = "closed"
    /\ cl[c].listening
    /\ c \notin connections
    /\ evictedAt(c) <= cl[c].closedAt


\* -------------------------------------------------------------------- C32
BroadcastToNobody ==
  (Len(bcast') > Len(bcast) /\ connections = {}) =>
    /\ connections' = connections
    /\ out' = out
    /\ \A r \in Runs : run'[r].pc # "catch_pull"

\* C32: a step that broadcasts while the conversation has no subscriber
\* writes to no connection, leaves the set of connections as it is, and the
\* broadcasting run goes on, not into its catch.
C32_NoSubscriberNoOp == [][BroadcastToNobody]_vars

\* a run has broadcast all its events and no connection was ever opened
C32_Witness ==
  /\ run[1].pc = "done"
  /\ Len(bcast) >= 3
  /\ connections = {}
  /\ \A c \in Clients : cl[c].pc = "none" /\ out[c] = <<>>


\* -------------------------------------------------------------------- C33
\* the resume endpoint answers connection c's request in the step
AnswersResume(c) == cl[c].pc \in {"rs_find", "rs_xrange"} /\ cl'[c].pc = "rs_done"

\* the stream of message id has a session, in the registry or in the log
HasSession(id) == activeStreams[id].present \/ redisLog[id] # <<>>

\* the text and status of that session
sessionState(id) ==
  IF activeStreams[id].present THEN resumeFromMemory(activeStreams, id)
  ELSE resumeFromLog(xRange(redisLog, id))

ResumeAnswersSession ==
  \A c \in Clients :
    (AnswersResume(c) /\ HasSession(cl[c].sid)) =>
      /\ cl'[c].reply.code = 200
      /\ cl'[c].reply.text = sessionState(cl[c].sid).text
      /\ cl'[c].reply.status = sessionState(cl[c].sid).status

\* C33 as stated: whenever the resume endpoint answers a request for a
\* message whose stream has a session, in the registry or in the log, the
\* answer carries that session's accumulated text and status, also before
\* the message's first fragment has been stored in the document.
C33_AsStated == [][ResumeAnswersSession]_vars


\* -------------------------------------------------------------------- C34
BoundedBackoff(h) ==
  /\ h.sinceOpen <= 10
  /\ h.reconnectTimeout # 0 =>
       /\ h.sinceOpen < 10
       /\ h.reconnectTimeout =
            (IF 1000 * 2^h.sinceOpen < 30000 THEN 1000 * 2^h.sinceOpen ELSE 30000)
  /\ h.errors <= 1
  /\ h.errors = 1 <=> (h.sinceOpen = 10 /\ h.es = "none")
  /\ h.errors = 1 => h.reconnectTimeout = 0

\* C34: the hook reconnects at most 10 times in a row without an open in
\* between, the timer before reconnect n (counted from 0 since the last open)
\* is set to min(1000 * 2^n, 30000) ms, and once 10 reconnects have failed
\* no timer is pending and exactly one message of type 'error' was delivered.
C34_BoundedBackoff == \A c \in Clients : BoundedBackoff(cl[c].hook)

\* a hook that used up its attempts, and one waiting the capped delay
C34_Witness ==
  \E c, d \in Clients :
    /\ cl[c].hook.errors = 1
    /\ cl[c].hook.sinceOpen = 10
    /\ cl[d].hook.reconnectTimeout = 30000


\* -------------------------------------------------------------------- C36
\* the entry is a bot message made from `token` events
IsStreamedEntry(m) == m.type = "bot" /\ m.id[1] = "bot"

\* C36 as stated: whatever events ChatCard's handler has received, its
\* message list holds at most one entry per bot message id: the tokens of a
\* message are all in one entry.
C36_AsStated ==
  \A c \in Clients :
    \A i, j \in 1..Len(cl[c].card.messages) :
      (/\ i < j
       /\ IsStreamedEntry(cl[c].card.messages[i])
       /\ IsStreamedEntry(cl[c].card.messages[j]))
        => cl[c].card.messages[i].id # cl[c].card.messages[j].id


\* -------------------------------------------------------------------- C35
\* run r has finished a fragment (append, broadcast, persist) and not yet
\* started the next
FragmentDone(r) == run[r].pc = "next_chunk" /\ run[r].nchunks >= 1

\* the text of the run's bot message in the document
storedText(r) ==
  conv.messages[firstMatch(conv.messages, BotId(run[r].botMsgId))].text

TextsAgree(r) ==
  /\ activeStreams[run[r].streamId].present
  /\ activeStreams[run[r].streamId].text = run[r].fullReply
  /\ hasMessage(conv, BotId(run[r].botMsgId))
  /\ storedText(r) = run[r].fullReply
  /\ accumulate(xRange(redisLog, run[r].streamId)) = run[r].fullReply

\* C35 as stated: between two fragments the session's text, the run's fullReply, the
\* text of the bot message in the document and the concatenation of the
\* log's token events are equal.
C35_AsStated == \A r \in Runs : FragmentDone(r) => TextsAgree(r)

\* -------------------------------------------------------------------- C37
\* completeStream has returned the session of key sid, no Redis command of a
\* call on sid has failed and the log of sid has not expired
CompletedCleanly(sid) ==
  /\ smh.completed[sid]
  /\ ~smh.faulted[sid]
  /\ ~smh.expired[sid]
  /\ sm.pc = "idle"

\* C37 as stated: once completeStream has completed a stream, its log, which
\* holds at least the completion event, carries an expiry, whether or not a
\* fragment was appended before.
C37_AsStated ==
  \A sid \in StreamIds :
    (CompletedCleanly(sid) /\ redisLog[sid] # <<>>) => logTTL[sid]

\* -------------------------------------------------------------------- C38
\* C38 as stated: once a run has ended, done or errored, activeStreams holds
\* no session under the run's stream key.
C38_AsStated ==
  \A r \in Runs :
    run[r].pc \in {"done", "errored"} => ~activeStreams[run[r].botMsgId].present

\* -------------------------------------------------------------------- C39
\* GET /api/conversations/:id answers connection c with the conversation
ServesConversation(c) ==
  cl[c].pc \in {"none", "gc_find"} /\ cl'[c].pc = "gc_done" /\ cl'[c].reply.code = 200

ServesStoredMessages ==
  \A c \in Clients :
    (ServesConversation(c) /\ run[1].pc \in {"done", "errored"})
      => cl'[c].served = conv.messages

\* C39 as stated: once the run has ended, done or errored, an answer of
\* GET /api/conversations/:id carries the messages the document holds, also
\* when it is served from conversationCache.
C39_AsStated == [][ServesStoredMessages]_vars

\* -------------------------------------------------------------------- C40
\* run r ends in Errored in the step
EndsErrored(r) == run[r].pc = "catch_pull" /\ run'[r].pc = "errored"

userMessages(cv) == SelectSeq(cv.messages, LAMBDA m : m.type = "user")

ErroredLeavesRest ==
  \A r \in Runs :
    EndsErrored(r) =>
      /\ conv'.history = conv.history
      /\ userMessages(conv') = userMessages(conv)
      /\ \A q \in Runs \ {r} :
           (run[q].pc = "done" /\ hasMessage(conv, BotId(run[q].botMsgId)))
             => hasMessage(conv', BotId(run[q].botMsgId))

HistoryOnlyOnDone ==
  conv'.history # conv.history => \E r \in Runs : run[r].pc # "done" /\ run'[r].pc = "done"

\* C40 as stated: the step in which a run ends in Errored leaves history and
\* the user messages as they are and removes no bot message of another run,
\* and history is written only by a step in which a run ends in Done.
C40_AsStated == [][ErroredLeavesRest /\ HistoryOnlyOnDone]_vars

====
